---- MODULE Spec2Model ----
(***************************************************************************)
(* Model of the junos provider core: the physical-interface resource       *)
(* (junos/resource_interface_physical.go) and the security utm-policy      *)
(* resource.  A configuration statement or a line of a configuration dump  *)
(* is a sequence of words; a dump is the sequence of its lines (the text   *)
(* split on "\n").                                                         *)
(***************************************************************************)
EXTENDS Integers, Sequences, FiniteSets, TLC

(***************************************************************************)
(* Bounds of the model.                                                    *)
(***************************************************************************)
\* highest aggregated-interface index an operation may name (ae0..ae<MaxAE>)
MaxAE == 1
\* number of concurrently running provider operations
NumProcs == 2
\* longest configuration dump handed to the classifier on its own
MaxDumpLines == 3

(***************************************************************************)
(* Words.                                                                  *)
(***************************************************************************)
\* decimal text of the small integers the model prints and parses
Digits == <<"0", "1", "2", "3", "4", "5", "6", "7", "8", "9", "10", "11", "12">>

\* strconv.Itoa on 0..12
Itoa(n) == Digits[n + 1]

\* "-1": the text left of "ae-1" once the "ae" prefix is trimmed
MinusOne == "-1"

\* strconv.Atoi: [ok, val]; text that is no integer gives ok = FALSE
Atoi(w) ==
    IF w = MinusOne THEN [ok |-> TRUE, val |-> -1]
    ELSE IF \E i \in 1..Len(Digits) : Digits[i] = w
         THEN [ok |-> TRUE, val |-> (CHOOSE i \in 1..Len(Digits) : Digits[i] = w) - 1]
         ELSE [ok |-> FALSE, val |-> 0]

\* the names ae0, ae1, ... : "ae" followed by the decimal index
AeTable == <<"ae0", "ae1", "ae2", "ae3", "ae4", "ae5", "ae6", "ae7", "ae8", "ae9", "ae10",
             "ae11">>

AeName(n) == AeTable[n + 1]

\* the placeholder the callers pass for "no aggregated interface"
AeNone == "ae-1"

\* regexp ae\d+ : a word that is "ae" and digits
IsAeWord(w) == \E i \in 1..Len(AeTable) : AeTable[i] = w

\* strings.TrimPrefix(w, "ae") for the words above
TrimAe(w) ==
    IF w = AeNone THEN MinusOne
    ELSE IF IsAeWord(w) THEN Itoa((CHOOSE i \in 1..Len(AeTable) : AeTable[i] = w) - 1)
    ELSE w

\* strings.HasPrefix(name, "ae") for interface names
NameHasPrefixAe(w) == IsAeWord(w) \/ w = AeNone

AENames == {AeName(i) : i \in 0..MaxAE}

PhysNames == {"ge0", "ge1"}

IfNames == AENames \cup PhysNames

\* interfaces the device's inventory knows besides the provisioned ae slots
HwInventory == {"ge0"}

PolicyNames == {"p1"}

\* the sentinel sess.command returns for a path without configuration
emptyWord == "empty"

\* the word every line of a "display set" dump starts with
setLineStart == "set"

\* the input of a run: the provider's configuration for the handlers, the
\* arguments of the function for the pure-function specifications
VARIABLE sample

\* Session.junosGroupIntDel: the provider's deletion group ("" when unset)
junosGroupIntDel == sample.group

(***************************************************************************)
(* strings.* on word sequences.                                            *)
(***************************************************************************)
HasPrefix(s, p) == Len(s) >= Len(p) /\ SubSeq(s, 1, Len(p)) = p

HasSuffix(s, p) == Len(s) >= Len(p) /\ SubSeq(s, Len(s) - Len(p) + 1, Len(s)) = p

TrimPrefix(s, p) == IF HasPrefix(s, p) THEN SubSeq(s, Len(p) + 1, Len(s)) ELSE s

ContainsWord(s, w) == \E i \in 1..Len(s) : s[i] = w

\* strings.Fields(line)[len-1]
LastWord(s) == s[Len(s)]

\* the two words whose text ends in "ether-options"
EndsEtherOptions(w) == w \in {"ether-options", "gigether-options"}

\* a value between Go string quotes: "\"" + v + "\""
Quote(v) ==
    CASE v = "p1" -> "\"p1\""
      [] v = "av1" -> "\"av1\""
      [] v = "av2" -> "\"av2\""
      [] v = "d1" -> "\"d1\""
      [] OTHER -> v

\* strings.Trim(w, "\"")
TrimQuotes(w) ==
    CASE w = "\"p1\"" -> "p1"
      [] w = "\"av1\"" -> "av1"
      [] w = "\"av2\"" -> "av2"
      [] w = "\"d1\"" -> "d1"
      [] OTHER -> w

(***************************************************************************)
(* The device (the transport collaborator of spec section 6).  Its         *)
(* committed configuration is a set of leaf statements, each the word      *)
(* sequence of its full path and value.                                    *)
(***************************************************************************)
EsiModes == {"all-active", "single-active"}

\* values the schema accepts for esi.identifier, which the pattern
\* ^([\d\w]{2}:){9}[\d\w]{2} of readIntEsi matches as well
EsiIdentifiers == {"dd:dd:dd:dd:dd:dd:dd:dd:dd:dd:dd"}

IfPath(name) == <<"interfaces", name>>

PolicyPath(name) == <<"security", "utm", "utm-policy", Quote(name)>>

DeviceCountPath == <<"chassis", "aggregated-devices", "ethernet", "device-count">>

\* the part of a leaf that identifies the setting it gives a value to: a
\* later set of the same key replaces the earlier value
LeafKey(leaf) ==
    LET n == Len(leaf) IN
    IF \/ LastWord(leaf) \in {"disable", "vlan-tagging"}
       \/ (n >= 2 /\ leaf[n - 1] \in {"apply-groups", "members"})
       \/ (n >= 3 /\ leaf[n - 2] = "esi" /\ leaf[n - 1] = "auto-derive")
    THEN leaf
    ELSE IF n >= 2 /\ leaf[n - 1] = "esi" /\ leaf[n] \in EsiModes
    THEN SubSeq(leaf, 1, n - 1) \o <<"#mode">>
    ELSE IF n >= 2 /\ leaf[n - 1] = "esi" /\ leaf[n] \in EsiIdentifiers
    THEN SubSeq(leaf, 1, n - 1) \o <<"#identifier">>
    ELSE SubSeq(leaf, 1, n - 1)

\* the leaves one set statement creates: the bare "set interfaces <name>"
\* creates none, "disable description NC" on one line creates two
LeavesOf(path) ==
    IF Len(path) <= 2 THEN {}
    ELSE IF Len(path) >= 4 /\ path[1] = "interfaces" /\ path[3] = "disable"
    THEN {SubSeq(path, 1, 3), SubSeq(path, 1, 2) \o SubSeq(path, 4, Len(path))}
    ELSE {path}

SetLeaf(conf, leaf) == {c \in conf : LeafKey(c) # LeafKey(leaf)} \cup {leaf}

RECURSIVE SetLeaves(_, _)
SetLeaves(conf, leaves) ==
    IF leaves = {} THEN conf
    ELSE LET l == CHOOSE x \in leaves : TRUE
         IN SetLeaves(SetLeaf(conf, l), leaves \ {l})

\* one statement of a commit applied to the configuration
ApplyStatement(conf, st) ==
    IF st[1] = "delete" THEN {c \in conf : ~HasPrefix(c, Tail(st))}
    ELSE SetLeaves(conf, LeavesOf(Tail(st)))

\* the statements of a commit applied in the order they were staged
RECURSIVE ApplyAll(_, _)
ApplyAll(conf, sts) ==
    IF sts = <<>> THEN conf
    ELSE ApplyAll(ApplyStatement(conf, Head(sts)), Tail(sts))

\* the rank of a leaf in a dump: the device prints a stanza in its own order
LeafRank(leaf) ==
    CASE ContainsWord(leaf, "apply-groups") -> 0
      [] ContainsWord(leaf, "description") -> 1
      [] ContainsWord(leaf, "disable") -> 2
      [] OTHER -> 3

RECURSIVE Render(_)
Render(leaves) ==
    IF leaves = {} THEN <<>>
    ELSE LET m == CHOOSE x \in leaves : \A y \in leaves : LeafRank(x) <= LeafRank(y)
         IN <<m>> \o Render(leaves \ {m})

\* sess.command("show configuration <path> | display set [relative]"):
\* the lines under the path, or the empty sentinel when there are none
Command(conf, path, relative) ==
    LET under == {c \in conf : HasPrefix(c, path)}
        lines == Render(under)
    IN IF under = {} THEN << <<emptyWord>> >>
       ELSE [i \in 1..Len(lines) |->
                <<setLineStart>> \o (IF relative THEN TrimPrefix(lines[i], path) ELSE lines[i])]

\* the device-count the committed configuration holds, 0 when it holds none
DeviceCount(conf) ==
    IF \E c \in conf : HasPrefix(c, DeviceCountPath)
    THEN Atoi(LastWord(CHOOSE c \in conf : HasPrefix(c, DeviceCountPath))).val
    ELSE 0

\* the reply to get-interface-information: the interface's record, or the
\* "not found" message
CommandXML(conf, name) ==
    IF name \in HwInventory \/ (IsAeWord(name) /\ Atoi(TrimAe(name)).val < DeviceCount(conf))
    THEN <<"<interface-information>", name>>
    ELSE <<"device", name, " not found\n">>

(***************************************************************************)
(* Interface lifecycle classifier.                                         *)
(***************************************************************************)
MarkerOpen == "<configuration-output>"

MarkerClose == "</configuration-output>"

\* the loop of checkInterfacePhysicalNCEmpty that drops unused lines
RECURSIVE NCEmptyLines(_)
NCEmptyLines(dump) ==
    IF dump = <<>> THEN <<>>
    ELSE LET item == Head(dump) IN
         IF HasPrefix(item, <<"set", "unit">>) /\ ~ContainsWord(item, "ethernet-switching")
         THEN NCEmptyLines(Tail(dump))
         ELSE IF ContainsWord(item, MarkerOpen) THEN NCEmptyLines(Tail(dump))
         ELSE IF ContainsWord(item, MarkerClose) THEN <<>>
         ELSE IF item = <<>> THEN NCEmptyLines(Tail(dump))
         ELSE <<item>> \o NCEmptyLines(Tail(dump))

\* a classifier that knows the parked pattern in one order only
ClassifyOneOrder(dump, group) ==
    LET intConfigLines == NCEmptyLines(dump) IN
    IF Len(intConfigLines) = 0 THEN [nc |-> FALSE, empty |-> TRUE]
    ELSE IF group # "" /\ intConfigLines = << <<"set", "apply-groups", group>> >>
    THEN [nc |-> TRUE, empty |-> FALSE]
    ELSE IF intConfigLines = << <<"set", "description", "NC">>, <<"set", "disable">> >>
    THEN [nc |-> TRUE, empty |-> FALSE]
    ELSE IF intConfigLines = << <<emptyWord>> >> THEN [nc |-> FALSE, empty |-> TRUE]
    ELSE [nc |-> FALSE, empty |-> FALSE]

\* checkInterfacePhysicalNCEmpty on the dump of a successful query, for a
\* session whose deletion group is group: the pair (ncInt, emtyInt)
ClassifyNCEmpty(dump, group) ==
    LET intConfigLines == NCEmptyLines(dump) IN
    IF Len(intConfigLines) = 0 THEN [nc |-> FALSE, empty |-> TRUE]
    ELSE IF group # "" /\ intConfigLines = << <<"set", "apply-groups", group>> >>
    THEN [nc |-> TRUE, empty |-> FALSE]
    ELSE IF \/ intConfigLines = << <<"set", "description", "NC">>, <<"set", "disable">> >>
            \/ intConfigLines = << <<"set", "disable">>, <<"set", "description", "NC">> >>
    THEN [nc |-> TRUE, empty |-> FALSE]
    ELSE IF intConfigLines = << <<emptyWord>> >> THEN [nc |-> FALSE, empty |-> TRUE]
    ELSE [nc |-> FALSE, empty |-> FALSE]

\* a classification that passes no deletion group to the classifier
NCEmptyWithoutGroup(conf, interFace) ==
    ClassifyNCEmpty(Command(conf, IfPath(interFace), TRUE), "")

checkInterfacePhysicalNCEmpty(conf, interFace) ==
    ClassifyNCEmpty(Command(conf, IfPath(interFace), TRUE), junosGroupIntDel)

\* an inventory lookup that takes every reply for a found interface
InterfaceAlwaysExists(conf, interFace) == TRUE

\* checkInterfaceExists on the reply of a successful inventory lookup
checkInterfaceExists(conf, interFace) ==
    ~ContainsWord(CommandXML(conf, interFace), " not found\n")

(***************************************************************************)
(* Aggregated-interface allocator.                                         *)
(***************************************************************************)
\* regexp `ether-options 802\.3ad ae\d+$`
MatchAEchild(line) ==
    /\ Len(line) >= 3
    /\ EndsEtherOptions(line[Len(line) - 2])
    /\ line[Len(line) - 1] = "802.3ad"
    /\ IsAeWord(LastWord(line))

\* regexp `^set ae\d+ `
MatchAEparent(line) == Len(line) >= 3 /\ line[1] = "set" /\ IsAeWord(line[2])

\* a last-child check that counts the line of the acting interface too
LastChildCountingActor(showConf, ae, interFace) ==
    \A i \in 1..Len(showConf) :
        LET item == showConf[i] IN
        ~(/\ Len(item) >= 3
          /\ EndsEtherOptions(item[Len(item) - 2])
          /\ item[Len(item) - 1] = "802.3ad"
          /\ LastWord(item) = ae)

\* interfaceAggregatedLastChild on the dump of the interfaces configuration
interfaceAggregatedLastChild(showConf, ae, interFace) ==
    \A i \in 1..Len(showConf) :
        LET item == showConf[i] IN
        ~(/\ Len(item) >= 3
          /\ EndsEtherOptions(item[Len(item) - 2])
          /\ item[Len(item) - 1] = "802.3ad"
          /\ LastWord(item) = ae
          /\ ~(Len(item) >= 3 /\ item[1] = "set" /\ item[2] = interFace))

\* the scan loop of interfaceAggregatedCountSearchMax
RECURSIVE ListAEFound(_, _, _)
ListAEFound(showConf, oldAE, interFace) ==
    IF showConf = <<>> THEN <<>>
    ELSE LET line == Head(showConf)
             found ==
                 IF MatchAEchild(line)
                 THEN IF interFace = oldAE THEN <<LastWord(line)>>
                      ELSE IF LastWord(line) # oldAE THEN <<LastWord(line)>>
                      ELSE <<>>
                 ELSE IF MatchAEparent(line)
                 THEN IF interFace # oldAE THEN <<line[2]>>
                      ELSE IF line[2] # oldAE THEN <<line[2]>>
                      ELSE <<>>
                 ELSE <<>>
         IN found \o ListAEFound(Tail(showConf), oldAE, interFace)

AeNum(w) == Atoi(TrimAe(w)).val

\* sort.Sort(sortStringsLength(list)): the names in increasing order of
\* their index, so that the last one carries the highest
RECURSIVE sortStringsLength(_)
sortStringsLength(list) ==
    IF list = <<>> THEN <<>>
    ELSE LET k == CHOOSE i \in 1..Len(list) :
                      \A j \in 1..Len(list) : AeNum(list[i]) <= AeNum(list[j])
         IN <<list[k]>> \o
            sortStringsLength(SubSeq(list, 1, k - 1) \o SubSeq(list, k + 1, Len(list)))

\* an allocator that returns the highest index instead of the count
CountSearchMaxNoPlusOne(newAE, oldAE, interFace, showConf, showConfLast) ==
    LET newAENumInt == Atoi(TrimAe(newAE))
        scanned == ListAEFound(showConf, oldAE, interFace)
        lastOldAE == interfaceAggregatedLastChild(showConfLast, oldAE, interFace)
        listAEFound == sortStringsLength(IF ~lastOldAE THEN Append(scanned, oldAE) ELSE scanned)
        lastAeInt == Atoi(TrimAe(listAEFound[Len(listAEFound)]))
    IN IF ~newAENumInt.ok THEN [ok |-> FALSE, count |-> ""]
       ELSE IF Len(listAEFound) > 0 /\ ~lastAeInt.ok THEN [ok |-> FALSE, count |-> ""]
       ELSE IF Len(listAEFound) > 0 /\ lastAeInt.val > newAENumInt.val
       THEN [ok |-> TRUE, count |-> Itoa(lastAeInt.val)]
       ELSE [ok |-> TRUE, count |-> Itoa(newAENumInt.val)]

\* an allocator that reads the highest index off the list as the scan
\* built it, without sorting it
CountSearchMaxUnsorted(newAE, oldAE, interFace, showConf, showConfLast) ==
    LET newAENumInt == Atoi(TrimAe(newAE))
        scanned == ListAEFound(showConf, oldAE, interFace)
        lastOldAE == interfaceAggregatedLastChild(showConfLast, oldAE, interFace)
        listAEFound == IF ~lastOldAE THEN Append(scanned, oldAE) ELSE scanned
        lastAeInt == Atoi(TrimAe(listAEFound[Len(listAEFound)]))
    IN IF ~newAENumInt.ok THEN [ok |-> FALSE, count |-> ""]
       ELSE IF Len(listAEFound) > 0 /\ ~lastAeInt.ok THEN [ok |-> FALSE, count |-> ""]
       ELSE IF Len(listAEFound) > 0 /\ lastAeInt.val > newAENumInt.val
       THEN [ok |-> TRUE, count |-> Itoa(lastAeInt.val + 1)]
       ELSE [ok |-> TRUE, count |-> Itoa(newAENumInt.val + 1)]

\* interfaceAggregatedCountSearchMax on the dumps of its two scans (its own
\* and the one of interfaceAggregatedLastChild): [ok, count]
interfaceAggregatedCountSearchMax(newAE, oldAE, interFace, showConf, showConfLast) ==
    LET newAENumInt == Atoi(TrimAe(newAE))
        scanned == ListAEFound(showConf, oldAE, interFace)
        lastOldAE == interfaceAggregatedLastChild(showConfLast, oldAE, interFace)
        listAEFound == sortStringsLength(IF ~lastOldAE THEN Append(scanned, oldAE) ELSE scanned)
        lastAeInt == Atoi(TrimAe(listAEFound[Len(listAEFound)]))
    IN IF ~newAENumInt.ok THEN [ok |-> FALSE, count |-> ""]
       ELSE IF Len(listAEFound) > 0 /\ ~lastAeInt.ok THEN [ok |-> FALSE, count |-> ""]
       ELSE IF Len(listAEFound) > 0 /\ lastAeInt.val > newAENumInt.val
       THEN [ok |-> TRUE, count |-> Itoa(lastAeInt.val + 1)]
       ELSE [ok |-> TRUE, count |-> Itoa(newAENumInt.val + 1)]

\* the interfaces dump both scans read
ShowInterfaces(conf) == Command(conf, <<"interfaces">>, TRUE)

(***************************************************************************)
(* Codec of the physical interface: structured options <-> statements.     *)
(* A value is one word.  An option record d carries the schema's fields;   *)
(* esi is a list of at most one block, a block being nil or a record.      *)
(***************************************************************************)
NilEsi ==
    [nil |-> TRUE, mode |-> "", auto_derive_lacp |-> FALSE, df_election_type |-> "",
     identifier |-> "", source_bmac |-> ""]

\* the block readIntEsi materializes on the first esi line
NewEsi ==
    [nil |-> FALSE, mode |-> "", auto_derive_lacp |-> FALSE, df_election_type |-> "",
     identifier |-> "", source_bmac |-> ""]

\* var confRead interfacePhysicalOptions: the zero value
ZeroInterfaceOptions ==
    [trunk |-> FALSE, vlanTagging |-> FALSE, aeMinLink |-> 0, vlanNative |-> 0,
     aeLacp |-> "", aeLinkSpeed |-> "", description |-> "", v8023ad |-> "",
     vlanMembers |-> <<>>, esi |-> <<>>]

\* the first word of what is left of a line, "" when nothing is left
WordOf(ws) == IF Len(ws) = 0 THEN "" ELSE ws[1]

SetPrefix(name) == <<"set", "interfaces", name>>

\* setIntEsi: the statements it hands to configSet
RECURSIVE setIntEsi(_, _)
setIntEsi(setPrefix, esiParams) ==
    IF esiParams = <<>> THEN <<>>
    ELSE LET m == Head(esiParams)
             one ==
                 IF m.nil THEN <<>>
                 ELSE IF m.mode # "" THEN <<setPrefix \o <<"esi", m.mode>>>>
                 ELSE IF m.auto_derive_lacp THEN <<setPrefix \o <<"esi", "auto-derive", "lacp">>>>
                 ELSE IF m.df_election_type # ""
                 THEN <<setPrefix \o <<"esi", "df-election-type", m.df_election_type>>>>
                 ELSE IF m.identifier # "" THEN <<setPrefix \o <<"esi", m.identifier>>>>
                 ELSE IF m.source_bmac # "" THEN <<setPrefix \o <<"esi", "source-bmac", m.source_bmac>>>>
                 ELSE <<>>
         IN one \o setIntEsi(setPrefix, Tail(esiParams))

\* a record that asks for aggregated-ether-options on every name
AeOptionsNeverInvalid(d) == FALSE

\* the three tests of setInterfacePhysical that return "... invalid for this
\* interface": an aggregation attribute on a name without the prefix "ae"
AeOptionsInvalid(d) ==
    /\ ~NameHasPrefixAe(d.name)
    /\ (d.ae_lacp # "" \/ d.ae_link_speed # "" \/ d.ae_minimum_links > 0)

\* setInterfacePhysical with every collaborator call succeeding: d holds
\* the planned options, oldAEtf the ether802_3ad of the prior state,
\* showConf and showConfLast the dumps of the two allocator scans.
\* err is "" or the kind of the error returned; staged lists what configSet
\* received before the return.
setInterfacePhysical(d, oldAEtf, showConf, showConfLast) ==
    LET setPrefix == SetPrefix(d.name)
        isAe == NameHasPrefixAe(d.name)
        aeOpt == <<setPrefix>>
                 \o (IF d.ae_lacp # ""
                     THEN <<setPrefix \o <<"aggregated-ether-options", "lacp", d.ae_lacp>>>>
                     ELSE <<>>)
                 \o (IF d.ae_link_speed # ""
                     THEN <<setPrefix \o <<"aggregated-ether-options", "link-speed",
                                           d.ae_link_speed>>>>
                     ELSE <<>>)
                 \o (IF d.ae_minimum_links > 0
                     THEN <<setPrefix \o <<"aggregated-ether-options", "minimum-links",
                                           Itoa(d.ae_minimum_links)>>>>
                     ELSE <<>>)
                 \o (IF d.description # ""
                     THEN <<setPrefix \o <<"description", Quote(d.description)>>>>
                     ELSE <<>>)
        esiSet == setIntEsi(setPrefix, d.esi)
        oldAE == IF d.ether802_3ad # oldAEtf /\ oldAEtf # "" THEN oldAEtf ELSE AeNone
        aggregatedCount ==
            IF isAe
            THEN interfaceAggregatedCountSearchMax(d.name, AeNone, d.name, showConf, showConfLast)
            ELSE interfaceAggregatedCountSearchMax(d.ether802_3ad, oldAE, d.name,
                                                   showConf, showConfLast)
        countSet == <<<<"set">> \o DeviceCountPath \o <<aggregatedCount.count>>>>
        aeSet == IF isAe THEN countSet
                 ELSE IF d.ether802_3ad # ""
                 THEN <<setPrefix \o <<"ether-options", "802.3ad", d.ether802_3ad>>,
                        setPrefix \o <<"gigether-options", "802.3ad", d.ether802_3ad>>>>
                      \o countSet
                 ELSE <<>>
        vlanSet == (IF d.trunk
                    THEN <<setPrefix \o <<"unit", "0", "family", "ethernet-switching",
                                          "interface-mode", "trunk">>>>
                    ELSE <<>>)
                   \o [i \in 1..Len(d.vlan_members) |->
                          setPrefix \o <<"unit", "0", "family", "ethernet-switching", "vlan",
                                         "members", d.vlan_members[i]>>]
                   \o (IF d.vlan_native # 0
                       THEN <<setPrefix \o <<"native-vlan-id", Itoa(d.vlan_native)>>>>
                       ELSE <<>>)
                   \o (IF d.vlan_tagging THEN <<setPrefix \o <<"vlan-tagging">>>> ELSE <<>>)
        configSet == aeOpt \o aeSet \o vlanSet
    IN IF AeOptionsInvalid(d)
       THEN [err |-> "validation", staged |-> <<>>]
       ELSE IF (isAe \/ d.ether802_3ad # "") /\ ~aggregatedCount.ok
       THEN [err |-> "validation", staged |-> esiSet]
       ELSE [err |-> "", staged |-> esiSet \o configSet]

\* readIntEsi: the options after one "esi ..." line (itemTrim is the line
\* without its leading "set")
readIntEsi(confRead, item) ==
    LET itemTrim == TrimPrefix(item, <<"esi">>)
        esi0 == IF Len(confRead.esi) = 0 THEN NewEsi ELSE confRead.esi[1]
        esi1 ==
            IF Len(itemTrim) = 1 /\ itemTrim[1] \in EsiIdentifiers
            THEN [esi0 EXCEPT !.identifier = itemTrim[1]]
            ELSE IF itemTrim = <<"all-active">> \/ itemTrim = <<"single-active">>
            THEN [esi0 EXCEPT !.mode = itemTrim[1]]
            ELSE IF HasPrefix(itemTrim, <<"df-election-type">>) /\ Len(itemTrim) >= 2
            THEN [esi0 EXCEPT !.df_election_type = WordOf(TrimPrefix(itemTrim, <<"df-election-type">>))]
            ELSE IF HasPrefix(itemTrim, <<"source-bmac">>) /\ Len(itemTrim) >= 2
            THEN [esi0 EXCEPT !.source_bmac = WordOf(TrimPrefix(itemTrim, <<"source-bmac">>))]
            ELSE IF itemTrim = <<"auto-derive", "lacp">>
            THEN [esi0 EXCEPT !.auto_derive_lacp = TRUE]
            ELSE esi0
    IN [confRead EXCEPT !.esi = <<esi1>>]

\* strings.Contains(item, " unit "): the word unit inside the line
ContainsUnitInside(item) == \E i \in 2..(Len(item) - 1) : item[i] = "unit"

\* the loop of readInterfacePhysical over the lines of the dump:
\* [err, opt], err being the line that failed to convert or <<>>
RECURSIVE ReadInterfaceLines(_, _)
ReadInterfaceLines(dump, confRead) ==
    IF dump = <<>> THEN [err |-> <<>>, opt |-> confRead]
    ELSE LET item == Head(dump)
             itemTrim == IF Len(item) >= 2 THEN TrimPrefix(item, <<setLineStart>>) ELSE item
             rest == Tail(dump)
             val(prefix) == WordOf(TrimPrefix(itemTrim, prefix))
         IN
         IF ContainsUnitInside(item) /\ ~ContainsWord(item, "ethernet-switching")
         THEN ReadInterfaceLines(rest, confRead)
         ELSE IF ContainsWord(item, MarkerOpen) THEN ReadInterfaceLines(rest, confRead)
         ELSE IF ContainsWord(item, MarkerClose) THEN [err |-> <<>>, opt |-> confRead]
         ELSE IF HasPrefix(itemTrim, <<"aggregated-ether-options", "lacp">>) /\ Len(itemTrim) >= 3
         THEN ReadInterfaceLines(rest,
                  [confRead EXCEPT !.aeLacp = val(<<"aggregated-ether-options", "lacp">>)])
         ELSE IF HasPrefix(itemTrim, <<"aggregated-ether-options", "link-speed">>)
                 /\ Len(itemTrim) >= 3
         THEN ReadInterfaceLines(rest,
                  [confRead EXCEPT !.aeLinkSpeed = val(<<"aggregated-ether-options", "link-speed">>)])
         ELSE IF HasPrefix(itemTrim, <<"aggregated-ether-options", "minimum-links">>)
                 /\ Len(itemTrim) >= 3
         THEN LET n == Atoi(val(<<"aggregated-ether-options", "minimum-links">>)) IN
              IF ~n.ok THEN [err |-> itemTrim, opt |-> confRead]
              ELSE ReadInterfaceLines(rest, [confRead EXCEPT !.aeMinLink = n.val])
         ELSE IF HasPrefix(itemTrim, <<"description">>) /\ Len(itemTrim) >= 2
         THEN ReadInterfaceLines(rest,
                  [confRead EXCEPT !.description = TrimQuotes(val(<<"description">>))])
         ELSE IF HasPrefix(itemTrim, <<"esi">>) /\ Len(itemTrim) >= 2
         THEN ReadInterfaceLines(rest, readIntEsi(confRead, itemTrim))
         ELSE IF HasPrefix(itemTrim, <<"ether-options", "802.3ad">>) /\ Len(itemTrim) >= 3
         THEN ReadInterfaceLines(rest,
                  [confRead EXCEPT !.v8023ad = val(<<"ether-options", "802.3ad">>)])
         ELSE IF HasPrefix(itemTrim, <<"gigether-options", "802.3ad">>) /\ Len(itemTrim) >= 3
         THEN ReadInterfaceLines(rest,
                  [confRead EXCEPT !.v8023ad = val(<<"gigether-options", "802.3ad">>)])
         ELSE IF HasPrefix(itemTrim, <<"native-vlan-id">>)
         THEN LET n == Atoi(val(<<"native-vlan-id">>)) IN
              IF ~n.ok THEN [err |-> itemTrim, opt |-> confRead]
              ELSE ReadInterfaceLines(rest, [confRead EXCEPT !.vlanNative = n.val])
         ELSE IF itemTrim = <<"unit", "0", "family", "ethernet-switching", "interface-mode", "trunk">>
         THEN ReadInterfaceLines(rest, [confRead EXCEPT !.trunk = TRUE])
         ELSE IF HasPrefix(itemTrim, <<"unit", "0", "family", "ethernet-switching", "vlan", "members">>)
         THEN ReadInterfaceLines(rest,
                  [confRead EXCEPT !.vlanMembers =
                      Append(@, val(<<"unit", "0", "family", "ethernet-switching", "vlan", "members">>))])
         ELSE IF itemTrim = <<"vlan-tagging">>
         THEN ReadInterfaceLines(rest, [confRead EXCEPT !.vlanTagging = TRUE])
         ELSE ReadInterfaceLines(rest, confRead)

\* readInterfacePhysical on the dump of a successful query
readInterfacePhysical(dump) ==
    IF dump # << <<emptyWord>> >> THEN ReadInterfaceLines(dump, ZeroInterfaceOptions)
    ELSE [err |-> <<>>, opt |-> ZeroInterfaceOptions]

\* delInterfacePhysicalOpts: the statements it hands to configSet
delInterfacePhysicalOpts(name) ==
    LET delPrefix == <<"delete", "interfaces", name>> IN
    << delPrefix \o <<"aggregated-ether-options">>,
       delPrefix \o <<"esi">>,
       delPrefix \o <<"ether-options", "802.3ad">>,
       delPrefix \o <<"gigether-options", "802.3ad">>,
       delPrefix \o <<"native-vlan-id">>,
       delPrefix \o <<"unit", "0", "family", "ethernet-switching", "interface-mode">>,
       delPrefix \o <<"unit", "0", "family", "ethernet-switching", "vlan", "members">>,
       delPrefix \o <<"vlan-tagging">> >>

\* delInterfaceNC: the statements it hands to configSet
delInterfaceNC(name) ==
    LET delPrefix == <<"delete", "interfaces", name>> IN
    (IF junosGroupIntDel # "" THEN <<delPrefix \o <<"apply-groups", junosGroupIntDel>>>> ELSE <<>>)
    \o <<delPrefix \o <<"description">>, delPrefix \o <<"disable">>>>

\* a parking that, without deletion group, only disables the interface
ParkWithDisableOnly(interFace) ==
    IF junosGroupIntDel = ""
    THEN <<SetPrefix(interFace) \o <<"disable">>>>
    ELSE <<SetPrefix(interFace) \o <<"apply-groups", junosGroupIntDel>>>>

\* addInterfacePhysicalNC: the statement it hands to configSet
addInterfacePhysicalNC(interFace) ==
    IF junosGroupIntDel = ""
    THEN <<SetPrefix(interFace) \o <<"disable", "description", "NC">>>>
    ELSE <<SetPrefix(interFace) \o <<"apply-groups", junosGroupIntDel>>>>

\* a unit check that lets every interface be deleted
UnitNeverBlocks(dump) == FALSE

\* checkInterfacePhysicalContainsUnit on the dump of a successful query:
\* TRUE when it returns the "used for other son unit interface" error
RECURSIVE checkInterfacePhysicalContainsUnit(_)
checkInterfacePhysicalContainsUnit(dump) ==
    IF dump = <<>> THEN FALSE
    ELSE LET item == Head(dump) IN
         IF ContainsWord(item, MarkerOpen) THEN checkInterfacePhysicalContainsUnit(Tail(dump))
         ELSE IF ContainsWord(item, MarkerClose) THEN FALSE
         ELSE IF HasPrefix(item, <<"set", "unit">>)
         THEN IF ContainsWord(item, "ethernet-switching")
              THEN checkInterfacePhysicalContainsUnit(Tail(dump))
              ELSE TRUE
         ELSE checkInterfacePhysicalContainsUnit(Tail(dump))

\* "set"/"delete chassis aggregated-devices ethernet device-count" for the
\* count the allocator returned on a delete
DeviceCountStatement(aggregatedCount) ==
    IF aggregatedCount = "0" THEN <<"delete">> \o DeviceCountPath
    ELSE <<"set">> \o DeviceCountPath \o <<aggregatedCount>>

\* delInterfacePhysical with every collaborator call succeeding: name and
\* ether802_3ad are those of the resource state, intDump the dump of the
\* interface, showConf/showConfLast the dumps of the allocator scans
delInterfacePhysical(name, ether802_3ad, intDump, showConf, showConfLast) ==
    LET del == <<<<"delete", "interfaces", name>>>>
        parentCount == interfaceAggregatedCountSearchMax(AeNone, name, name, showConf, showConfLast)
        lastAEchild == interfaceAggregatedLastChild(showConf, ether802_3ad, name)
        childCount ==
            interfaceAggregatedCountSearchMax(AeNone, ether802_3ad, name, showConf, showConfLast)
    IN IF checkInterfacePhysicalContainsUnit(intDump) THEN [err |-> "inuse", staged |-> <<>>]
       ELSE IF NameHasPrefixAe(name)
       THEN IF ~parentCount.ok THEN [err |-> "validation", staged |-> del]
            ELSE [err |-> "", staged |-> Append(del, DeviceCountStatement(parentCount.count))]
       ELSE IF ether802_3ad # ""
       THEN IF lastAEchild
            THEN IF ~childCount.ok THEN [err |-> "validation", staged |-> del]
                 ELSE [err |-> "", staged |-> Append(del, DeviceCountStatement(childCount.count))]
            ELSE [err |-> "", staged |-> del]
       ELSE [err |-> "", staged |-> del]

(***************************************************************************)
(* Codec of the security utm-policy.                                       *)
(***************************************************************************)
ProfileFields ==
    << <<"ftp_download_profile", <<"ftp", "download-profile">>>>,
       <<"ftp_upload_profile", <<"ftp", "upload-profile">>>>,
       <<"http_profile", <<"http-profile">>>>,
       <<"imap_profile", <<"imap-profile">>>>,
       <<"pop3_profile", <<"pop3-profile">>>>,
       <<"smtp_profile", <<"smtp-profile">>>> >>

\* genMapUtmPolicyProfile
genMapUtmPolicyProfile ==
    [nil |-> FALSE, ftp_download_profile |-> "", ftp_upload_profile |-> "", http_profile |-> "",
     imap_profile |-> "", pop3_profile |-> "", smtp_profile |-> ""]

NilProfile == [genMapUtmPolicyProfile EXCEPT !.nil = TRUE]

\* the block readUtmPolicy materializes on the first sessions-per-client line
NewSessPerClient == [nil |-> FALSE, limit |-> -1, over_limit |-> ""]

NilSessPerClient == [nil |-> TRUE, limit |-> -1, over_limit |-> ""]

\* var confRead utmPolicyOptions: the zero value
ZeroUtmPolicyOptions ==
    [name |-> "", antiSpamSMTPProfile |-> "", webFilteringProfile |-> "",
     antiVirus |-> <<>>, contentFiltering |-> <<>>, trafficSessionsPerClient |-> <<>>]

\* the statements setUtmPolicy emits for one non-nil profile block
ProfileStatements(setPrefixBlock, block) ==
    LET one(i) == IF block[ProfileFields[i][1]] # ""
                  THEN <<setPrefixBlock \o ProfileFields[i][2] \o <<Quote(block[ProfileFields[i][1]])>>>>
                  ELSE <<>>
    IN one(1) \o one(2) \o one(3) \o one(4) \o one(5) \o one(6)

\* an encoder that takes a limit of 0 for the unset limit
setUtmPolicyZeroUnset(d) ==
    LET setPrefix == <<"set">> \o PolicyPath(d.name)
        c1 == IF d.anti_spam_smtp_profile # ""
              THEN <<setPrefix \o <<"anti-spam", "smtp-profile", Quote(d.anti_spam_smtp_profile)>>>>
              ELSE <<>>
        c2 == IF d.anti_virus # <<>> /\ ~d.anti_virus[1].nil
              THEN ProfileStatements(setPrefix \o <<"anti-virus">>, d.anti_virus[1])
              ELSE <<>>
        c3 == IF d.content_filtering # <<>> /\ ~d.content_filtering[1].nil
              THEN ProfileStatements(setPrefix \o <<"content-filtering">>, d.content_filtering[1])
              ELSE <<>>
        t == d.traffic_sessions_per_client
        c4 == IF t # <<>> /\ ~t[1].nil
              THEN (IF t[1].limit > 0
                    THEN <<setPrefix \o <<"traffic-options", "sessions-per-client", "limit",
                                          Itoa(t[1].limit)>>>>
                    ELSE <<>>)
                   \o (IF t[1].over_limit # ""
                       THEN <<setPrefix \o <<"traffic-options", "sessions-per-client", "over-limit",
                                             t[1].over_limit>>>>
                       ELSE <<>>)
              ELSE <<>>
        c5 == IF d.web_filtering_profile # ""
              THEN <<setPrefix \o <<"web-filtering", "http-profile", Quote(d.web_filtering_profile)>>>>
              ELSE <<>>
    IN IF d.anti_virus # <<>> /\ d.anti_virus[1].nil
       THEN [err |-> "validation", configSet |-> <<>>]
       ELSE IF d.content_filtering # <<>> /\ d.content_filtering[1].nil
       THEN [err |-> "validation", configSet |-> <<>>]
       ELSE IF t # <<>> /\ t[1].nil THEN [err |-> "validation", configSet |-> <<>>]
       ELSE [err |-> "", configSet |-> c1 \o c2 \o c3 \o c4 \o c5]

\* setUtmPolicy up to its configSet call: [err, configSet]
setUtmPolicy(d) ==
    LET setPrefix == <<"set">> \o PolicyPath(d.name)
        c1 == IF d.anti_spam_smtp_profile # ""
              THEN <<setPrefix \o <<"anti-spam", "smtp-profile", Quote(d.anti_spam_smtp_profile)>>>>
              ELSE <<>>
        c2 == IF d.anti_virus # <<>> /\ ~d.anti_virus[1].nil
              THEN ProfileStatements(setPrefix \o <<"anti-virus">>, d.anti_virus[1])
              ELSE <<>>
        c3 == IF d.content_filtering # <<>> /\ ~d.content_filtering[1].nil
              THEN ProfileStatements(setPrefix \o <<"content-filtering">>, d.content_filtering[1])
              ELSE <<>>
        t == d.traffic_sessions_per_client
        c4 == IF t # <<>> /\ ~t[1].nil
              THEN (IF t[1].limit # -1
                    THEN <<setPrefix \o <<"traffic-options", "sessions-per-client", "limit",
                                          Itoa(t[1].limit)>>>>
                    ELSE <<>>)
                   \o (IF t[1].over_limit # ""
                       THEN <<setPrefix \o <<"traffic-options", "sessions-per-client", "over-limit",
                                             t[1].over_limit>>>>
                       ELSE <<>>)
              ELSE <<>>
        c5 == IF d.web_filtering_profile # ""
              THEN <<setPrefix \o <<"web-filtering", "http-profile", Quote(d.web_filtering_profile)>>>>
              ELSE <<>>
    IN IF d.anti_virus # <<>> /\ d.anti_virus[1].nil
       THEN [err |-> "validation", configSet |-> <<>>]
       ELSE IF d.content_filtering # <<>> /\ d.content_filtering[1].nil
       THEN [err |-> "validation", configSet |-> <<>>]
       ELSE IF t # <<>> /\ t[1].nil THEN [err |-> "validation", configSet |-> <<>>]
       ELSE [err |-> "", configSet |-> c1 \o c2 \o c3 \o c4 \o c5]

\* a profile decoder that keeps the first value a field was given
ProfileFirstValueWins(itemTrimPolicyProfile, profileMap) ==
    LET hit == {i \in 1..Len(ProfileFields) :
                   HasPrefix(itemTrimPolicyProfile, ProfileFields[i][2])
                   /\ Len(itemTrimPolicyProfile) > Len(ProfileFields[i][2])}
    IN IF hit = {} THEN profileMap
       ELSE LET i == CHOOSE j \in hit : \A k \in hit : j <= k IN
            IF profileMap[ProfileFields[i][1]] # "" THEN profileMap
            ELSE [profileMap EXCEPT ![ProfileFields[i][1]] =
                     TrimQuotes(WordOf(TrimPrefix(itemTrimPolicyProfile, ProfileFields[i][2])))]

\* readUtmPolicyProfile: the block after one line of it
readUtmPolicyProfile(itemTrimPolicyProfile, profileMap) ==
    LET hit == {i \in 1..Len(ProfileFields) :
                   HasPrefix(itemTrimPolicyProfile, ProfileFields[i][2])
                   /\ Len(itemTrimPolicyProfile) > Len(ProfileFields[i][2])}
    IN IF hit = {} THEN profileMap
       ELSE LET i == CHOOSE j \in hit : \A k \in hit : j <= k IN
            [profileMap EXCEPT ![ProfileFields[i][1]] =
                TrimQuotes(WordOf(TrimPrefix(itemTrimPolicyProfile, ProfileFields[i][2])))]

\* the loop of readUtmPolicy over the lines of the dump: [err, opt], err
\* being <<>> or what the error of strconv.Atoi, returned as it is, names:
\* the text that failed to convert
RECURSIVE ReadUtmPolicyLines(_, _)
ReadUtmPolicyLines(dump, confRead) ==
    IF dump = <<>> THEN [err |-> <<>>, opt |-> confRead]
    ELSE LET item == Head(dump)
             itemTrim == IF Len(item) >= 2 THEN TrimPrefix(item, <<setLineStart>>) ELSE item
             rest == Tail(dump)
             spc == <<"traffic-options", "sessions-per-client">>
             t0 == IF Len(confRead.trafficSessionsPerClient) = 0 THEN NewSessPerClient
                   ELSE confRead.trafficSessionsPerClient[1]
             lim == Atoi(WordOf(TrimPrefix(itemTrim, spc \o <<"limit">>)))
             isLimit == HasPrefix(itemTrim, spc \o <<"limit">>) /\ Len(itemTrim) >= 4
             isOver == HasPrefix(itemTrim, spc \o <<"over-limit">>) /\ Len(itemTrim) >= 4
             t2 == [t0 EXCEPT
                       !.limit = IF isLimit THEN lim.val ELSE @,
                       !.over_limit =
                           IF isOver THEN WordOf(TrimPrefix(itemTrim, spc \o <<"over-limit">>))
                           ELSE @]
         IN
         IF ContainsWord(item, MarkerOpen) THEN ReadUtmPolicyLines(rest, confRead)
         ELSE IF ContainsWord(item, MarkerClose) THEN [err |-> <<>>, opt |-> confRead]
         ELSE IF HasPrefix(itemTrim, <<"anti-spam", "smtp-profile">>) /\ Len(itemTrim) >= 3
         THEN ReadUtmPolicyLines(rest,
                  [confRead EXCEPT !.antiSpamSMTPProfile =
                      TrimQuotes(WordOf(TrimPrefix(itemTrim, <<"anti-spam", "smtp-profile">>)))])
         ELSE IF HasPrefix(itemTrim, <<"anti-virus">>) /\ Len(itemTrim) >= 2
         THEN ReadUtmPolicyLines(rest,
                  [confRead EXCEPT !.antiVirus =
                      <<readUtmPolicyProfile(TrimPrefix(itemTrim, <<"anti-virus">>),
                            IF Len(@) = 0 THEN genMapUtmPolicyProfile ELSE @[1])>>])
         ELSE IF HasPrefix(itemTrim, <<"content-filtering">>) /\ Len(itemTrim) >= 2
         THEN ReadUtmPolicyLines(rest,
                  [confRead EXCEPT !.contentFiltering =
                      <<readUtmPolicyProfile(TrimPrefix(itemTrim, <<"content-filtering">>),
                            IF Len(@) = 0 THEN genMapUtmPolicyProfile ELSE @[1])>>])
         ELSE IF HasPrefix(itemTrim, spc) /\ Len(itemTrim) >= 3
         THEN IF isLimit /\ ~lim.ok
              THEN [err |-> <<WordOf(TrimPrefix(itemTrim, spc \o <<"limit">>))>>,
                    opt |-> [confRead EXCEPT !.trafficSessionsPerClient = <<t0>>]]
              ELSE ReadUtmPolicyLines(rest, [confRead EXCEPT !.trafficSessionsPerClient = <<t2>>])
         ELSE IF HasPrefix(itemTrim, <<"web-filtering", "http-profile">>) /\ Len(itemTrim) >= 3
         THEN ReadUtmPolicyLines(rest,
                  [confRead EXCEPT !.webFilteringProfile =
                      TrimQuotes(WordOf(TrimPrefix(itemTrim, <<"web-filtering", "http-profile">>)))])
         ELSE ReadUtmPolicyLines(rest, confRead)

\* readUtmPolicy on the dump of a successful query
readUtmPolicy(policy, dump) ==
    IF dump # << <<emptyWord>> >>
    THEN ReadUtmPolicyLines(dump, [ZeroUtmPolicyOptions EXCEPT !.name = policy])
    ELSE [err |-> <<>>, opt |-> ZeroUtmPolicyOptions]

\* an existence check that takes every dump for the empty sentinel
PolicyNeverExists(dump) == FALSE

\* checkUtmPolicysExists on the dump of a successful query
checkUtmPolicysExists(dump) == dump # << <<emptyWord>> >>

\* delUtmPolicy: the statement it hands to configSet
delUtmPolicy(policy) == <<<<"delete">> \o PolicyPath(policy)>>

(***************************************************************************)
(* State of the provider and of the device.                                *)
(***************************************************************************)
VARIABLES
    conf,        \* the device's committed configuration: a set of leaves
    lockHolder,  \* the operation holding the device configuration lock, 0 for none
    mutex,       \* the operation holding the process-wide mutex, 0 for none
    tfId,        \* resource name -> whether the resource data has its id set
    tfAE,        \* interface name -> ether802_3ad of the resource's prior state
    proc,        \* operation slot -> the operation it runs
    ret,         \* what the operation that returned in the last step handed back
    declared,    \* the resources Terraform manages: the names operations are run on
    outcome      \* what the pure function under check returned for sample

vars == <<conf, lockHolder, mutex, tfId, tfAE, proc, ret, declared, sample, outcome>>

Procs == 1..NumProcs

Resources == IfNames \cup PolicyNames

\* schema defaults of junos_interface_physical
BasePlan(name) ==
    [name |-> name, ae_lacp |-> "", ae_link_speed |-> "", ae_minimum_links |-> 0,
     description |-> "", esi |-> <<>>, ether802_3ad |-> "", trunk |-> FALSE,
     vlan_members |-> <<>>, vlan_native |-> 0, vlan_tagging |-> FALSE]

\* the planned options an interface operation may be given; an aggregated
\* parent is declared with one option at least, so that the configuration
\* dump has a line for it
IfPlans(name) ==
    IF name \in AENames
    THEN {[BasePlan(name) EXCEPT !.ae_minimum_links = 2],
          [BasePlan(name) EXCEPT !.ae_lacp = "active"]}
    ELSE {BasePlan(name),
          [BasePlan(name) EXCEPT !.description = "d1"],
          [BasePlan(name) EXCEPT !.ae_minimum_links = 2]}
         \cup {[BasePlan(name) EXCEPT !.ether802_3ad = a] : a \in AENames}

\* schema defaults of junos_security_utm_policy
BasePolicy(name) ==
    [name |-> name, anti_spam_smtp_profile |-> "", anti_virus |-> <<>>,
     content_filtering |-> <<>>, traffic_sessions_per_client |-> <<>>,
     web_filtering_profile |-> ""]

\* the planned options a policy operation may be given
PolicyPlans(name) ==
    {BasePolicy(name),
     [BasePolicy(name) EXCEPT !.anti_spam_smtp_profile = "av1"],
     [BasePolicy(name) EXCEPT !.anti_virus = <<NilProfile>>]}

NoPlan == BasePlan("")

\* an operation slot before its first operation
IdleProc ==
    [pc |-> "idle", op |-> "", name |-> "", d |-> NoPlan, staged |-> <<>>, nc |-> FALSE,
     noDisable |-> FALSE, res |-> "", warn |-> FALSE, commits |-> 0, cleared |-> FALSE,
     post |-> "", guarded |-> FALSE, unguarded |-> FALSE]

\* no operation returned in the last step
NoReturn == [IdleProc EXCEPT !.pc = "none"]

\* the resources of the runs with one operation at a time
SeqResources == PhysNames \cup {AeName(MaxAE)} \cup PolicyNames

\* the resources of the runs with concurrent operations
ConcResources == HwInventory \cup PolicyNames

\* the resources of the runs with concurrent interface operations
AggResources == HwInventory \cup {AeName(MaxAE)}

\* the state after the provider is configured, with slots operation slots
\* and the resources in managed declared
MainInit(slots, managed, groups) ==
    /\ declared = managed
    /\ sample \in [group : groups]
    /\ outcome = <<>>
    /\ conf = {}
    /\ lockHolder = 0
    /\ mutex = 0
    /\ tfId = [r \in Resources |-> FALSE]
    /\ tfAE = [i \in IfNames |-> ""]
    /\ proc = [p \in slots |-> IdleProc]
    /\ ret = NoReturn

\* one operation at a time
Init == MainInit({1}, SeqResources, {"grpdel"})

\* concurrent operations on an aggregated parent and a physical interface
AggInit == MainInit(Procs, AggResources, {"grpdel"})

\* Terraform runs up to NumProcs operations at once
ConcInit == MainInit(Procs, ConcResources, {"grpdel"})

\* Terraform runs one operation at a time on a resource
Free(name) == name \in declared /\ \A q \in DOMAIN proc : proc[q].pc = "idle" \/ proc[q].name # name

\* the slot at the start of an operation
Begin(op, name, d) == [IdleProc EXCEPT !.pc = "run", !.op = op, !.name = name, !.d = d]

\* the slot when the operation returns: the session is closed, nothing
\* stays staged
Returned(q, kind) == [q EXCEPT !.pc = "returned", !.res = kind, !.staged = <<>>, !.d = NoPlan]

\* one step of operation p that does not return
Step(p, q) == proc' = [proc EXCEPT ![p] = q] /\ ret' = NoReturn

\* the step with which operation p returns q to its caller
Return(p, q) == proc' = [proc EXCEPT ![p] = IdleProc] /\ ret' = q

\* a handler that returned its error without calling sess.configClear
ReturnedUncleared(q, kind) == Returned(q, kind)

\* sess.configClear followed by the return: pending edits are discarded
Cleared(q, kind) == [Returned(q, kind) EXCEPT !.cleared = TRUE]

\* the configuration lock once operation p has returned (closeSession) or
\* called configClear
Released(p) == IF lockHolder = p THEN 0 ELSE lockHolder

\* sess.configLock: the lock is taken when it is free; the call may also
\* fail, and then returns an error and takes nothing
configLock(p, ok) == IF ok THEN lockHolder = 0 /\ lockHolder' = p ELSE lockHolder' = lockHolder

(***************************************************************************)
(* resourceInterfacePhysicalCreate.  Every collaborator call may fail      *)
(* (ok = FALSE).                                                           *)
(***************************************************************************)
\* startNewSession, then sess.configLock, whose result the handler drops
IfCreateLock(p) ==
    /\ proc[p].pc = "idle"
    /\ \E name \in IfNames : \E d \in IfPlans(name) : \E ok \in BOOLEAN :
          /\ Free(name)
          /\ ~tfId[name]
          /\ configLock(p, ok)
          /\ Step(p, [Begin("ifCreate", name, d) EXCEPT !.pc = "c_check"])
    /\ UNCHANGED <<conf, mutex, tfId, tfAE, declared, sample, outcome>>

\* the first checkInterfacePhysicalNCEmpty and the "already configured" test
IfCreateCheck(p) ==
    /\ proc[p].pc = "c_check"
    /\ \E ok \in BOOLEAN :
          LET st == checkInterfacePhysicalNCEmpty(conf, proc[p].name) IN
          IF ~ok
          THEN Return(p, Cleared(proc[p], "transport")) /\ lockHolder' = Released(p)
          ELSE IF ~st.nc /\ ~st.empty
          THEN Return(p, Cleared(proc[p], "conflict")) /\ lockHolder' = Released(p)
          ELSE /\ Step(p, [proc[p] EXCEPT !.pc = "c_set", !.nc = st.nc])
               /\ UNCHANGED lockHolder
    /\ UNCHANGED <<conf, mutex, tfId, tfAE, declared, sample, outcome>>

\* a create that removes the parked markers after setInterfacePhysical
IfCreateSetBeforeUnpark(p) ==
    /\ proc[p].pc = "c_set"
    /\ \E ok \in BOOLEAN :
          LET del == IF proc[p].nc THEN delInterfaceNC(proc[p].name) ELSE <<>>
              set == setInterfacePhysical(proc[p].d, tfAE[proc[p].name],
                                          ShowInterfaces(conf), ShowInterfaces(conf))
          IN
          IF ~ok
          THEN Return(p, Cleared(proc[p], "transport")) /\ lockHolder' = Released(p)
          ELSE IF set.err # ""
          THEN Return(p, Cleared(proc[p], set.err)) /\ lockHolder' = Released(p)
          ELSE /\ Step(p, [proc[p] EXCEPT !.pc = "c_commit",
                                                        !.staged = set.staged \o del])
               /\ UNCHANGED lockHolder
    /\ UNCHANGED <<conf, mutex, tfId, tfAE, declared, sample, outcome>>

\* delInterfaceNC (when parked) and setInterfacePhysical
IfCreateSet(p) ==
    /\ proc[p].pc = "c_set"
    /\ \E ok \in BOOLEAN :
          LET del == IF proc[p].nc THEN delInterfaceNC(proc[p].name) ELSE <<>>
              set == setInterfacePhysical(proc[p].d, tfAE[proc[p].name],
                                          ShowInterfaces(conf), ShowInterfaces(conf))
          IN
          IF ~ok
          THEN Return(p, Cleared(proc[p], "transport")) /\ lockHolder' = Released(p)
          ELSE IF set.err # ""
          THEN Return(p, Cleared(proc[p], set.err)) /\ lockHolder' = Released(p)
          ELSE /\ Step(p, [proc[p] EXCEPT !.pc = "c_commit",
                                                        !.staged = del \o set.staged])
               /\ UNCHANGED lockHolder
    /\ UNCHANGED <<conf, mutex, tfId, tfAE, declared, sample, outcome>>

\* sess.commitConf("create resource junos_interface_physical")
IfCreateCommit(p) ==
    /\ proc[p].pc = "c_commit"
    /\ \E ok \in BOOLEAN :
          IF ~ok
          THEN /\ Return(p, Cleared(proc[p], "transport"))
               /\ lockHolder' = Released(p)
               /\ UNCHANGED conf
          ELSE /\ conf' = ApplyAll(conf, proc[p].staged)
               /\ Step(p, [proc[p] EXCEPT !.pc = "c_verify", !.staged = <<>>,
                                                        !.commits = @ + 1])
               /\ UNCHANGED lockHolder
    /\ UNCHANGED <<mutex, tfId, tfAE, declared, sample, outcome>>

\* the checks after the commit, d.SetId, and the call of the guarded read
IfCreateVerify(p) ==
    /\ proc[p].pc = "c_verify"
    /\ \E ok \in BOOLEAN :
          LET name == proc[p].name
              st == checkInterfacePhysicalNCEmpty(conf, name)
              q == [proc[p] EXCEPT !.unguarded = TRUE]
          IN
          IF ~ok
          THEN /\ Return(p, Returned([q EXCEPT !.post = "failed"], "transport"))
               /\ lockHolder' = Released(p)
               /\ UNCHANGED <<tfId, tfAE>>
          ELSE IF st.nc
          THEN /\ Return(p, Returned([q EXCEPT !.post = "nc"], "inconsistent"))
               /\ lockHolder' = Released(p)
               /\ UNCHANGED <<tfId, tfAE>>
          ELSE IF st.empty /\ ~checkInterfaceExists(conf, name)
          THEN /\ Return(p, Returned([q EXCEPT !.post = "absent"], "inconsistent"))
               /\ lockHolder' = Released(p)
               /\ UNCHANGED <<tfId, tfAE>>
          ELSE /\ Step(p, [q EXCEPT !.pc = "r_lock", !.post = "inplace"])
               /\ tfId' = [tfId EXCEPT ![name] = TRUE]
               /\ tfAE' = [tfAE EXCEPT ![name] = proc[p].d.ether802_3ad]
               /\ UNCHANGED lockHolder
    /\ UNCHANGED <<conf, mutex, declared, sample, outcome>>

(***************************************************************************)
(* resourceInterfacePhysicalReadWJnprSess, as create and update call it.   *)
(***************************************************************************)
\* a read that goes on without taking the mutex
IfReadNoLock(p) ==
    /\ proc[p].pc = "r_lock"
    /\ Step(p, [proc[p] EXCEPT !.pc = "r_read"])
    /\ UNCHANGED <<conf, lockHolder, mutex, tfId, tfAE, declared, sample, outcome>>

\* mutex.Lock()
IfReadLock(p) ==
    /\ proc[p].pc = "r_lock"
    /\ mutex = 0
    /\ mutex' = p
    /\ Step(p, [proc[p] EXCEPT !.pc = "r_read"])
    /\ UNCHANGED <<conf, lockHolder, tfId, tfAE, declared, sample, outcome>>

\* a read that returns the error of a failed query without mutex.Unlock()
IfReadGuardedKeepsMutex(p) ==
    /\ proc[p].pc = "r_read"
    /\ lockHolder' = Released(p)
    /\ \E ok \in BOOLEAN :
          LET name == proc[p].name
              st == checkInterfacePhysicalNCEmpty(conf, name)
              rd == readInterfacePhysical(Command(conf, IfPath(name), TRUE))
              q == [proc[p] EXCEPT !.guarded = (mutex = p)]
          IN
          IF ~ok
          THEN Return(p, Returned(q, "transport")) /\ UNCHANGED <<mutex, tfId, tfAE>>
          ELSE IF st.nc \/ (st.empty /\ ~checkInterfaceExists(conf, name))
          THEN /\ Return(p, Returned(q, "ok"))
               /\ mutex' = 0
               /\ tfId' = [tfId EXCEPT ![name] = FALSE]
               /\ tfAE' = [tfAE EXCEPT ![name] = ""]
          ELSE IF rd.err # <<>>
          THEN Return(p, Returned(q, "validation")) /\ mutex' = 0 /\ UNCHANGED <<tfId, tfAE>>
          ELSE /\ Return(p, Returned(q, "ok"))
               /\ mutex' = 0
               /\ tfAE' = [tfAE EXCEPT ![name] = rd.opt.v8023ad]
               /\ UNCHANGED tfId
    /\ UNCHANGED <<conf, declared, sample, outcome>>

\* the body between mutex.Lock() and the return; the mutex is released on
\* every path
IfReadGuarded(p) ==
    /\ proc[p].pc = "r_read"
    /\ mutex' = 0
    /\ lockHolder' = Released(p)
    /\ \E ok \in BOOLEAN :
          LET name == proc[p].name
              st == checkInterfacePhysicalNCEmpty(conf, name)
              rd == readInterfacePhysical(Command(conf, IfPath(name), TRUE))
              q == [proc[p] EXCEPT !.guarded = (mutex = p)]
          IN
          IF ~ok
          THEN Return(p, Returned(q, "transport")) /\ UNCHANGED <<tfId, tfAE>>
          ELSE IF st.nc \/ (st.empty /\ ~checkInterfaceExists(conf, name))
          THEN /\ Return(p, Returned(q, "ok"))
               /\ tfId' = [tfId EXCEPT ![name] = FALSE]
               /\ tfAE' = [tfAE EXCEPT ![name] = ""]
          ELSE IF rd.err # <<>>
          THEN Return(p, Returned(q, "validation")) /\ UNCHANGED <<tfId, tfAE>>
          ELSE /\ Return(p, Returned(q, "ok"))
               /\ tfAE' = [tfAE EXCEPT ![name] = rd.opt.v8023ad]
               /\ UNCHANGED tfId
    /\ UNCHANGED <<conf, declared, sample, outcome>>

(***************************************************************************)
(* resourceInterfacePhysicalUpdate.                                        *)
(***************************************************************************)
IfUpdateLock(p) ==
    /\ proc[p].pc = "idle"
    /\ \E name \in IfNames : \E d \in IfPlans(name) : \E ok \in BOOLEAN :
          /\ Free(name)
          /\ tfId[name]
          /\ configLock(p, ok)
          /\ Step(p, [Begin("ifUpdate", name, d) EXCEPT !.pc = "u_set"])
    /\ UNCHANGED <<conf, mutex, tfId, tfAE, declared, sample, outcome>>

\* an update that stages its set statements before its delete statements
IfUpdateSetBeforeDelete(p) ==
    /\ proc[p].pc = "u_set"
    /\ \E ok \in BOOLEAN :
          LET set == setInterfacePhysical(proc[p].d, tfAE[proc[p].name],
                                          ShowInterfaces(conf), ShowInterfaces(conf))
          IN
          IF ~ok
          THEN Return(p, Cleared(proc[p], "transport")) /\ lockHolder' = Released(p)
          ELSE IF set.err # ""
          THEN Return(p, Cleared(proc[p], set.err)) /\ lockHolder' = Released(p)
          ELSE /\ Step(p, [proc[p] EXCEPT !.pc = "u_commit",
                                        !.staged = set.staged
                                                   \o delInterfacePhysicalOpts(proc[p].name)])
               /\ UNCHANGED lockHolder
    /\ UNCHANGED <<conf, mutex, tfId, tfAE, declared, sample, outcome>>

\* delInterfacePhysicalOpts and setInterfacePhysical
IfUpdateSet(p) ==
    /\ proc[p].pc = "u_set"
    /\ \E ok \in BOOLEAN :
          LET set == setInterfacePhysical(proc[p].d, tfAE[proc[p].name],
                                          ShowInterfaces(conf), ShowInterfaces(conf))
          IN
          IF ~ok
          THEN Return(p, Cleared(proc[p], "transport")) /\ lockHolder' = Released(p)
          ELSE IF set.err # ""
          THEN Return(p, Cleared(proc[p], set.err)) /\ lockHolder' = Released(p)
          ELSE /\ Step(p, [proc[p] EXCEPT !.pc = "u_commit",
                                        !.staged = delInterfacePhysicalOpts(proc[p].name)
                                                   \o set.staged])
               /\ UNCHANGED lockHolder
    /\ UNCHANGED <<conf, mutex, tfId, tfAE, declared, sample, outcome>>

\* sess.commitConf("update resource junos_interface_physical"), d.Partial(false)
IfUpdateCommit(p) ==
    /\ proc[p].pc = "u_commit"
    /\ \E ok \in BOOLEAN :
          IF ~ok
          THEN /\ Return(p, Cleared(proc[p], "transport"))
               /\ lockHolder' = Released(p)
               /\ UNCHANGED <<conf, tfAE>>
          ELSE /\ conf' = ApplyAll(conf, proc[p].staged)
               /\ Step(p, [proc[p] EXCEPT !.pc = "r_lock", !.staged = <<>>,
                                                        !.commits = @ + 1])
               /\ tfAE' = [tfAE EXCEPT ![proc[p].name] = proc[p].d.ether802_3ad]
               /\ UNCHANGED lockHolder
    /\ UNCHANGED <<mutex, tfId, declared, sample, outcome>>

(***************************************************************************)
(* resourceInterfacePhysicalDelete.                                        *)
(***************************************************************************)
IfDeleteLock(p) ==
    /\ proc[p].pc = "idle"
    /\ \E name \in IfNames : \E noDisable \in BOOLEAN : \E ok \in BOOLEAN :
          /\ Free(name)
          /\ tfId[name]
          /\ configLock(p, ok)
          /\ Step(p, [Begin("ifDelete", name, NoPlan) EXCEPT !.pc = "d_del",
                                                                 !.noDisable = noDisable])
    /\ UNCHANGED <<conf, mutex, tfId, tfAE, declared, sample, outcome>>

\* delInterfacePhysical
IfDeleteDel(p) ==
    /\ proc[p].pc = "d_del"
    /\ \E ok \in BOOLEAN :
          LET name == proc[p].name
              del == delInterfacePhysical(name, tfAE[name], Command(conf, IfPath(name), TRUE),
                                          ShowInterfaces(conf), ShowInterfaces(conf))
          IN
          IF ~ok
          THEN Return(p, Cleared(proc[p], "transport")) /\ lockHolder' = Released(p)
          ELSE IF del.err # ""
          THEN Return(p, Cleared(proc[p], del.err)) /\ lockHolder' = Released(p)
          ELSE /\ Step(p, [proc[p] EXCEPT !.pc = "d_commit", !.staged = del.staged])
               /\ UNCHANGED lockHolder
    /\ UNCHANGED <<conf, mutex, tfId, tfAE, declared, sample, outcome>>

\* sess.commitConf("delete resource junos_interface_physical"); without
\* parking (no_disable_on_destroy) the handler then returns
IfDeleteCommit(p) ==
    /\ proc[p].pc = "d_commit"
    /\ \E ok \in BOOLEAN :
          LET name == proc[p].name IN
          IF ~ok
          THEN /\ Return(p, Cleared(proc[p], "transport"))
               /\ lockHolder' = Released(p)
               /\ UNCHANGED <<conf, tfId, tfAE>>
          ELSE /\ conf' = ApplyAll(conf, proc[p].staged)
               /\ IF proc[p].noDisable
                  THEN /\ Return(p, Returned([proc[p] EXCEPT !.commits = @ + 1], "ok"))
                       /\ lockHolder' = Released(p)
                       /\ tfId' = [tfId EXCEPT ![name] = FALSE]
                       /\ tfAE' = [tfAE EXCEPT ![name] = ""]
                  ELSE /\ Step(p, [proc[p] EXCEPT !.pc = "d_park", !.staged = <<>>,
                                                                !.commits = @ + 1])
                       /\ UNCHANGED <<lockHolder, tfId, tfAE>>
    /\ UNCHANGED <<mutex, declared, sample, outcome>>

\* checkInterfaceExists after the commit and addInterfacePhysicalNC: a
\* failed lookup only adds a warning, a failed configSet is an error
IfDeletePark(p) ==
    /\ proc[p].pc = "d_park"
    /\ \E okExists \in BOOLEAN : \E okSet \in BOOLEAN :
          LET name == proc[p].name
              q == [proc[p] EXCEPT !.unguarded = TRUE]
          IN
          IF ~okExists \/ ~checkInterfaceExists(conf, name)
          THEN /\ Return(p, Returned([q EXCEPT !.warn = ~okExists], "ok"))
               /\ lockHolder' = Released(p)
               /\ tfId' = [tfId EXCEPT ![name] = FALSE]
               /\ tfAE' = [tfAE EXCEPT ![name] = ""]
          ELSE IF ~okSet
          THEN /\ Return(p, Cleared(q, "transport"))
               /\ lockHolder' = Released(p)
               /\ UNCHANGED <<tfId, tfAE>>
          ELSE /\ Step(p, [q EXCEPT !.pc = "d_commit2",
                                                        !.staged = addInterfacePhysicalNC(name)])
               /\ UNCHANGED <<lockHolder, tfId, tfAE>>
    /\ UNCHANGED <<conf, mutex, declared, sample, outcome>>

\* sess.commitConf("disable(NC) resource junos_interface_physical")
IfDeleteCommitNC(p) ==
    /\ proc[p].pc = "d_commit2"
    /\ \E ok \in BOOLEAN :
          LET name == proc[p].name IN
          IF ~ok
          THEN /\ Return(p, Cleared(proc[p], "transport"))
               /\ UNCHANGED <<conf, tfId, tfAE>>
          ELSE /\ conf' = ApplyAll(conf, proc[p].staged)
               /\ Return(p, Returned([proc[p] EXCEPT !.commits = @ + 1], "ok"))
               /\ tfId' = [tfId EXCEPT ![name] = FALSE]
               /\ tfAE' = [tfAE EXCEPT ![name] = ""]
    /\ lockHolder' = Released(p)
    /\ UNCHANGED <<mutex, declared, sample, outcome>>

(***************************************************************************)
(* resourceSecurityUtmPolicyCreate.                                        *)
(***************************************************************************)
PolicyDump(name, relative) == Command(conf, PolicyPath(name), relative)

\* startNewSession, then sess.configLock, whose error the handler returns
PolCreateLock(p) ==
    /\ proc[p].pc = "idle"
    /\ \E name \in PolicyNames : \E d \in PolicyPlans(name) : \E ok \in BOOLEAN :
          /\ Free(name)
          /\ ~tfId[name]
          /\ configLock(p, ok)
          /\ IF ok THEN Step(p, [Begin("polCreate", name, d) EXCEPT !.pc = "pc_check"])
                         ELSE Return(p, Returned(Begin("polCreate", name, d), "transport"))
    /\ UNCHANGED <<conf, mutex, tfId, tfAE, declared, sample, outcome>>

\* checkUtmPolicysExists and the "already exists" test
PolCreateCheck(p) ==
    /\ proc[p].pc = "pc_check"
    /\ \E ok \in BOOLEAN :
          IF ~ok
          THEN Return(p, Cleared(proc[p], "transport")) /\ lockHolder' = Released(p)
          ELSE IF checkUtmPolicysExists(PolicyDump(proc[p].name, FALSE))
          THEN Return(p, Cleared(proc[p], "conflict")) /\ lockHolder' = Released(p)
          ELSE Step(p, [proc[p] EXCEPT !.pc = "pc_set"]) /\ UNCHANGED lockHolder
    /\ UNCHANGED <<conf, mutex, tfId, tfAE, declared, sample, outcome>>

\* setUtmPolicy
PolCreateSet(p) ==
    /\ proc[p].pc = "pc_set"
    /\ \E ok \in BOOLEAN :
          LET set == setUtmPolicy(proc[p].d) IN
          IF set.err # ""
          THEN Return(p, Cleared(proc[p], set.err)) /\ lockHolder' = Released(p)
          ELSE IF ~ok
          THEN Return(p, Cleared(proc[p], "transport")) /\ lockHolder' = Released(p)
          ELSE /\ Step(p, [proc[p] EXCEPT !.pc = "pc_commit",
                                                        !.staged = set.configSet])
               /\ UNCHANGED lockHolder
    /\ UNCHANGED <<conf, mutex, tfId, tfAE, declared, sample, outcome>>

\* sess.commitConf("create resource junos_security_utm_policy")
PolCreateCommit(p) ==
    /\ proc[p].pc = "pc_commit"
    /\ \E ok \in BOOLEAN :
          IF ~ok
          THEN /\ Return(p, Cleared(proc[p], "transport"))
               /\ lockHolder' = Released(p)
               /\ UNCHANGED conf
          ELSE /\ conf' = ApplyAll(conf, proc[p].staged)
               /\ Step(p, [proc[p] EXCEPT !.pc = "pc_vlock", !.staged = <<>>,
                                                        !.commits = @ + 1])
               /\ UNCHANGED lockHolder
    /\ UNCHANGED <<mutex, tfId, tfAE, declared, sample, outcome>>

\* mutex.Lock() before the check after the commit
PolCreateVerifyLock(p) ==
    /\ proc[p].pc = "pc_vlock"
    /\ mutex = 0
    /\ mutex' = p
    /\ Step(p, [proc[p] EXCEPT !.pc = "pc_verify"])
    /\ UNCHANGED <<conf, lockHolder, tfId, tfAE, declared, sample, outcome>>

\* checkUtmPolicysExists under the mutex, mutex.Unlock(), d.SetId
PolCreateVerify(p) ==
    /\ proc[p].pc = "pc_verify"
    /\ mutex' = 0
    /\ \E ok \in BOOLEAN :
          LET name == proc[p].name
              q == [proc[p] EXCEPT !.guarded = (mutex = p)]
          IN
          IF ~ok
          THEN /\ Return(p, Returned([q EXCEPT !.post = "failed"], "transport"))
               /\ lockHolder' = Released(p)
               /\ UNCHANGED tfId
          ELSE IF checkUtmPolicysExists(PolicyDump(name, FALSE))
          THEN /\ Step(p, [q EXCEPT !.pc = "pr_lock", !.post = "inplace"])
               /\ tfId' = [tfId EXCEPT ![name] = TRUE]
               /\ UNCHANGED lockHolder
          ELSE /\ Return(p, Returned([q EXCEPT !.post = "absent"], "inconsistent"))
               /\ lockHolder' = Released(p)
               /\ UNCHANGED tfId
    /\ UNCHANGED <<conf, tfAE, declared, sample, outcome>>

(***************************************************************************)
(* resourceSecurityUtmPolicyRead, as create and update call it.            *)
(***************************************************************************)
\* mutex.Lock()
PolReadLock(p) ==
    /\ proc[p].pc = "pr_lock"
    /\ mutex = 0
    /\ mutex' = p
    /\ Step(p, [proc[p] EXCEPT !.pc = "pr_read"])
    /\ UNCHANGED <<conf, lockHolder, tfId, tfAE, declared, sample, outcome>>

\* startNewSession and readUtmPolicy under the mutex, mutex.Unlock(), and
\* the return through the caller
PolReadGuarded(p) ==
    /\ proc[p].pc = "pr_read"
    /\ mutex' = 0
    /\ lockHolder' = Released(p)
    /\ \E ok \in BOOLEAN :
          LET name == proc[p].name
              rd == readUtmPolicy(name, PolicyDump(name, TRUE))
              q == [proc[p] EXCEPT !.guarded = (mutex = p)]
          IN
          IF ~ok
          THEN Return(p, Returned(q, "transport")) /\ UNCHANGED tfId
          ELSE IF rd.err # <<>>
          THEN Return(p, Returned(q, "validation")) /\ UNCHANGED tfId
          ELSE /\ Return(p, Returned(q, "ok"))
               /\ tfId' = [tfId EXCEPT ![name] = IF rd.opt.name = "" THEN FALSE ELSE @]
    /\ UNCHANGED <<conf, tfAE, declared, sample, outcome>>

(***************************************************************************)
(* resourceSecurityUtmPolicyUpdate.                                        *)
(***************************************************************************)
PolUpdateLock(p) ==
    /\ proc[p].pc = "idle"
    /\ \E name \in PolicyNames : \E d \in PolicyPlans(name) : \E ok \in BOOLEAN :
          /\ Free(name)
          /\ tfId[name]
          /\ configLock(p, ok)
          /\ IF ok THEN Step(p, [Begin("polUpdate", name, d) EXCEPT !.pc = "pu_set"])
                         ELSE Return(p, Returned(Begin("polUpdate", name, d), "transport"))
    /\ UNCHANGED <<conf, mutex, tfId, tfAE, declared, sample, outcome>>

\* delUtmPolicy and setUtmPolicy
PolUpdateSet(p) ==
    /\ proc[p].pc = "pu_set"
    /\ \E ok \in BOOLEAN :
          LET set == setUtmPolicy(proc[p].d) IN
          IF ~ok
          THEN Return(p, Cleared(proc[p], "transport")) /\ lockHolder' = Released(p)
          ELSE IF set.err # ""
          THEN Return(p, Cleared(proc[p], set.err)) /\ lockHolder' = Released(p)
          ELSE /\ Step(p, [proc[p] EXCEPT !.pc = "pu_commit",
                                        !.staged = delUtmPolicy(proc[p].name) \o set.configSet])
               /\ UNCHANGED lockHolder
    /\ UNCHANGED <<conf, mutex, tfId, tfAE, declared, sample, outcome>>

\* sess.commitConf("update resource junos_security_utm_policy")
PolUpdateCommit(p) ==
    /\ proc[p].pc = "pu_commit"
    /\ \E ok \in BOOLEAN :
          IF ~ok
          THEN /\ Return(p, Cleared(proc[p], "transport"))
               /\ lockHolder' = Released(p)
               /\ UNCHANGED conf
          ELSE /\ conf' = ApplyAll(conf, proc[p].staged)
               /\ Step(p, [proc[p] EXCEPT !.pc = "pr_lock", !.staged = <<>>,
                                                        !.commits = @ + 1])
               /\ UNCHANGED lockHolder
    /\ UNCHANGED <<mutex, tfId, tfAE, declared, sample, outcome>>

(***************************************************************************)
(* resourceSecurityUtmPolicyDelete.                                        *)
(***************************************************************************)
PolDeleteLock(p) ==
    /\ proc[p].pc = "idle"
    /\ \E name \in PolicyNames : \E ok \in BOOLEAN :
          /\ Free(name)
          /\ tfId[name]
          /\ configLock(p, ok)
          /\ IF ok THEN Step(p, [Begin("polDelete", name, NoPlan) EXCEPT !.pc = "pd_del"])
                         ELSE Return(p, Returned(Begin("polDelete", name, NoPlan), "transport"))
    /\ UNCHANGED <<conf, mutex, tfId, tfAE, declared, sample, outcome>>

\* delUtmPolicy
PolDeleteDel(p) ==
    /\ proc[p].pc = "pd_del"
    /\ \E ok \in BOOLEAN :
          IF ~ok
          THEN Return(p, Cleared(proc[p], "transport")) /\ lockHolder' = Released(p)
          ELSE /\ Step(p, [proc[p] EXCEPT !.pc = "pd_commit",
                                                        !.staged = delUtmPolicy(proc[p].name)])
               /\ UNCHANGED lockHolder
    /\ UNCHANGED <<conf, mutex, tfId, tfAE, declared, sample, outcome>>

\* sess.commitConf("delete resource junos_security_utm_policy") and return
PolDeleteCommit(p) ==
    /\ proc[p].pc = "pd_commit"
    /\ lockHolder' = Released(p)
    /\ \E ok \in BOOLEAN :
          IF ~ok
          THEN /\ Return(p, Cleared(proc[p], "transport"))
               /\ UNCHANGED <<conf, tfId>>
          ELSE /\ conf' = ApplyAll(conf, proc[p].staged)
               /\ Return(p, Returned([proc[p] EXCEPT !.commits = @ + 1], "ok"))
               /\ tfId' = [tfId EXCEPT ![proc[p].name] = FALSE]
    /\ UNCHANGED <<mutex, tfAE, declared, sample, outcome>>

(***************************************************************************)
(* The provider: operations of the slots interleave step by step.          *)
(***************************************************************************)
\* the steps of the operations on junos_interface_physical
NextIf ==
    \/ \E p \in DOMAIN proc : IfCreateLock(p)
    \/ \E p \in DOMAIN proc : IfCreateCheck(p)
    \/ \E p \in DOMAIN proc : IfCreateSet(p)
    \/ \E p \in DOMAIN proc : IfCreateCommit(p)
    \/ \E p \in DOMAIN proc : IfCreateVerify(p)
    \/ \E p \in DOMAIN proc : IfReadLock(p)
    \/ \E p \in DOMAIN proc : IfReadGuarded(p)
    \/ \E p \in DOMAIN proc : IfUpdateLock(p)
    \/ \E p \in DOMAIN proc : IfUpdateSet(p)
    \/ \E p \in DOMAIN proc : IfUpdateCommit(p)
    \/ \E p \in DOMAIN proc : IfDeleteLock(p)
    \/ \E p \in DOMAIN proc : IfDeleteDel(p)
    \/ \E p \in DOMAIN proc : IfDeleteCommit(p)
    \/ \E p \in DOMAIN proc : IfDeletePark(p)
    \/ \E p \in DOMAIN proc : IfDeleteCommitNC(p)

\* the steps of the operations on junos_security_utm_policy
NextPol ==
    \/ \E p \in DOMAIN proc : PolCreateLock(p)
    \/ \E p \in DOMAIN proc : PolCreateCheck(p)
    \/ \E p \in DOMAIN proc : PolCreateSet(p)
    \/ \E p \in DOMAIN proc : PolCreateCommit(p)
    \/ \E p \in DOMAIN proc : PolCreateVerifyLock(p)
    \/ \E p \in DOMAIN proc : PolCreateVerify(p)
    \/ \E p \in DOMAIN proc : PolReadLock(p)
    \/ \E p \in DOMAIN proc : PolReadGuarded(p)
    \/ \E p \in DOMAIN proc : PolUpdateLock(p)
    \/ \E p \in DOMAIN proc : PolUpdateSet(p)
    \/ \E p \in DOMAIN proc : PolUpdateCommit(p)
    \/ \E p \in DOMAIN proc : PolDeleteLock(p)
    \/ \E p \in DOMAIN proc : PolDeleteDel(p)
    \/ \E p \in DOMAIN proc : PolDeleteCommit(p)

Next == NextIf \/ NextPol

Spec == Init /\ [][Next]_vars

SpecConc == ConcInit /\ [][Next]_vars

SpecAgg == AggInit /\ [][NextIf]_vars

(***************************************************************************)
(* resourceInterfacePhysicalImport.  It takes neither the configuration    *)
(* lock nor the mutex.                                                     *)
(***************************************************************************)
\* an identifier with a dot in it
DottedIds == {"ge0.0"}

\* strings.Count(id, ".") != 0
HasDot(id) == id \in DottedIds

\* the dot test, startNewSession, checkInterfacePhysicalNCEmpty and the
\* "is disabled" test
IfImportCheck(p) ==
    /\ proc[p].pc = "idle"
    /\ \E id \in IfNames \cup DottedIds : \E ok \in BOOLEAN :
          LET q == Begin("ifImport", id, NoPlan) IN
          IF HasDot(id) THEN Return(p, Returned(q, "baddot"))
          ELSE /\ Free(id)
               /\ ~tfId[id]
               /\ LET st == checkInterfacePhysicalNCEmpty(conf, id) IN
                  IF ~ok THEN Return(p, Returned(q, "transport"))
                  ELSE IF st.nc THEN Return(p, Returned(q, "parked"))
                  ELSE IF st.empty THEN Step(p, [q EXCEPT !.pc = "i_exists"])
                  ELSE Step(p, [q EXCEPT !.pc = "i_read"])
    /\ UNCHANGED <<conf, lockHolder, mutex, tfId, tfAE, declared, sample, outcome>>

\* checkInterfaceExists for an interface without configuration
IfImportExists(p) ==
    /\ proc[p].pc = "i_exists"
    /\ \E ok \in BOOLEAN :
          IF ~ok THEN Return(p, Returned(proc[p], "transport"))
          ELSE IF ~checkInterfaceExists(conf, proc[p].name)
          THEN Return(p, Returned(proc[p], "notfound"))
          ELSE Step(p, [proc[p] EXCEPT !.pc = "i_read"])
    /\ UNCHANGED <<conf, lockHolder, mutex, tfId, tfAE, declared, sample, outcome>>

\* readInterfacePhysical, d.Set("name"), fillInterfacePhysicalData: the
\* resource data returned becomes the resource's state
IfImportRead(p) ==
    /\ proc[p].pc = "i_read"
    /\ \E ok \in BOOLEAN :
          LET name == proc[p].name
              rd == readInterfacePhysical(Command(conf, IfPath(name), TRUE))
          IN
          IF ~ok
          THEN Return(p, Returned(proc[p], "transport")) /\ UNCHANGED <<tfId, tfAE>>
          ELSE IF rd.err # <<>>
          THEN Return(p, Returned(proc[p], "validation")) /\ UNCHANGED <<tfId, tfAE>>
          ELSE /\ Return(p, Returned(proc[p], "ok"))
               /\ tfId' = [tfId EXCEPT ![name] = TRUE]
               /\ tfAE' = [tfAE EXCEPT ![name] = rd.opt.v8023ad]
    /\ UNCHANGED <<conf, lockHolder, mutex, declared, sample, outcome>>

\* the steps of the import of a junos_interface_physical
NextImport ==
    \/ \E p \in DOMAIN proc : IfImportCheck(p)
    \/ \E p \in DOMAIN proc : IfImportExists(p)
    \/ \E p \in DOMAIN proc : IfImportRead(p)

\* the runs with imports: one operation at a time on an interface of the
\* device's inventory and on one the device does not have
ImportInit == MainInit({1}, PhysNames, {"grpdel"})

\* interface operations and imports, one at a time
SpecImport == ImportInit /\ [][NextIf \/ NextImport]_vars

(***************************************************************************)
(* The interface handlers and imports on a device that holds unit          *)
(* configuration made outside the resource ("used for other son unit       *)
(* interface"), for a provider with and without deletion group.            *)
(***************************************************************************)
UnitInit ==
    /\ declared = PhysNames
    /\ sample \in [group : {"", "grpdel"}]
    /\ outcome = <<>>
    /\ conf \in SUBSET {<<"interfaces", "ge0", "unit", "0", "family", "inet">>,
                        <<"interfaces", "ge0", "unit", "0", "family", "ethernet-switching",
                          "interface-mode", "trunk">>,
                        <<"interfaces", "ge1", "unit", "5", "vlan-id", "5">>}
    /\ lockHolder = 0
    /\ mutex = 0
    /\ tfId = [r \in Resources |-> FALSE]
    /\ tfAE = [i \in IfNames |-> ""]
    /\ proc = [p \in {1} |-> IdleProc]
    /\ ret = NoReturn

SpecUnit == UnitInit /\ [][NextIf \/ NextImport]_vars

(***************************************************************************)
(* Every operation of the provider, run concurrently under fair            *)
(* scheduling: the handlers above, the reads Terraform calls on their own  *)
(* and the imports.                                                        *)
(***************************************************************************)
\* a read that takes the configuration lock as the mutating handlers do
IfReadStartLocking(p) ==
    /\ proc[p].pc = "idle"
    /\ \E name \in IfNames : \E ok \in BOOLEAN :
          /\ Free(name)
          /\ tfId[name]
          /\ configLock(p, ok)
          /\ Step(p, [Begin("ifRead", name, NoPlan) EXCEPT !.pc = "r_lock"])
    /\ UNCHANGED <<conf, mutex, tfId, tfAE, declared, sample, outcome>>

\* resourceInterfacePhysicalRead: startNewSession, then
\* resourceInterfacePhysicalReadWJnprSess
IfReadStart(p) ==
    /\ proc[p].pc = "idle"
    /\ \E name \in IfNames :
          /\ Free(name)
          /\ tfId[name]
          /\ Step(p, [Begin("ifRead", name, NoPlan) EXCEPT !.pc = "r_lock"])
    /\ UNCHANGED <<conf, lockHolder, mutex, tfId, tfAE, declared, sample, outcome>>

\* resourceSecurityUtmPolicyRead called by Terraform
PolReadStart(p) ==
    /\ proc[p].pc = "idle"
    /\ \E name \in PolicyNames :
          /\ Free(name)
          /\ tfId[name]
          /\ Step(p, [Begin("polRead", name, NoPlan) EXCEPT !.pc = "pr_lock"])
    /\ UNCHANGED <<conf, lockHolder, mutex, tfId, tfAE, declared, sample, outcome>>

\* resourceSecurityUtmPolicyImport: checkUtmPolicysExists and readUtmPolicy,
\* with neither the configuration lock nor the mutex
PolImport(p) ==
    /\ proc[p].pc = "idle"
    /\ \E id \in PolicyNames : \E ok \in BOOLEAN :
          LET q == Begin("polImport", id, NoPlan)
              rd == readUtmPolicy(id, PolicyDump(id, TRUE))
          IN
          /\ Free(id)
          /\ ~tfId[id]
          /\ IF ~ok THEN Return(p, Returned(q, "transport")) /\ UNCHANGED tfId
             ELSE IF ~checkUtmPolicysExists(PolicyDump(id, FALSE))
             THEN Return(p, Returned(q, "notfound")) /\ UNCHANGED tfId
             ELSE IF rd.err # <<>>
             THEN Return(p, Returned(q, "validation")) /\ UNCHANGED tfId
             ELSE Return(p, Returned(q, "ok")) /\ tfId' = [tfId EXCEPT ![id] = TRUE]
    /\ UNCHANGED <<conf, lockHolder, mutex, tfAE, declared, sample, outcome>>

\* the next step of an operation that has started: the goroutine of the
\* operation runs on, and sync.Mutex hands the mutex to a goroutine that
\* keeps waiting for it
Proceed(p) ==
    \/ IfCreateCheck(p) \/ IfCreateSet(p) \/ IfCreateCommit(p) \/ IfCreateVerify(p)
    \/ IfReadLock(p) \/ IfReadGuarded(p)
    \/ IfUpdateSet(p) \/ IfUpdateCommit(p)
    \/ IfDeleteDel(p) \/ IfDeleteCommit(p) \/ IfDeletePark(p) \/ IfDeleteCommitNC(p)
    \/ IfImportExists(p) \/ IfImportRead(p)
    \/ PolCreateCheck(p) \/ PolCreateSet(p) \/ PolCreateCommit(p)
    \/ PolCreateVerifyLock(p) \/ PolCreateVerify(p)
    \/ PolReadLock(p) \/ PolReadGuarded(p)
    \/ PolUpdateSet(p) \/ PolUpdateCommit(p)
    \/ PolDeleteDel(p) \/ PolDeleteCommit(p)

\* concurrent operations of every kind under fair scheduling
SpecLive ==
    /\ ConcInit
    /\ [][\/ Next
          \/ NextImport
          \/ \E p \in DOMAIN proc : IfReadStart(p)
          \/ \E p \in DOMAIN proc : PolReadStart(p)
          \/ \E p \in DOMAIN proc : PolImport(p)]_vars
    /\ \A p \in Procs : SF_vars(Proceed(p))

(***************************************************************************)
(* The reads and the imports on their own, one at a time, on a device      *)
(* whose configuration was changed outside the provider since the          *)
(* resources were stored: parked markers, a unit, or nothing on the        *)
(* interfaces, the policy configured or not.                               *)
(***************************************************************************)
ReadInit ==
    /\ declared = PhysNames \cup PolicyNames
    /\ sample \in [group : {"", "grpdel"}]
    /\ outcome = <<>>
    /\ conf \in SUBSET {<<"interfaces", "ge0", "apply-groups", "grpdel">>,
                        <<"interfaces", "ge0", "description", "NC">>,
                        <<"interfaces", "ge0", "disable">>,
                        <<"interfaces", "ge0", "unit", "0", "family", "inet">>,
                        <<"interfaces", "ge1", "description", Quote("d1")>>,
                        PolicyPath("p1") \o <<"anti-spam", "smtp-profile", Quote("av1")>>}
    /\ lockHolder = 0
    /\ mutex = 0
    /\ tfId \in {t \in [Resources -> BOOLEAN] : \A r \in Resources : t[r] => r \in declared}
    /\ tfAE = [i \in IfNames |-> ""]
    /\ proc = [p \in {1} |-> IdleProc]
    /\ ret = NoReturn

SpecRead ==
    /\ ReadInit
    /\ [][\/ NextImport
          \/ \E p \in DOMAIN proc : IfReadStart(p)
          \/ \E p \in DOMAIN proc : IfReadLock(p)
          \/ \E p \in DOMAIN proc : IfReadGuarded(p)
          \/ \E p \in DOMAIN proc : PolReadStart(p)
          \/ \E p \in DOMAIN proc : PolReadLock(p)
          \/ \E p \in DOMAIN proc : PolReadGuarded(p)
          \/ \E p \in DOMAIN proc : PolImport(p)]_vars

(***************************************************************************)
(* The classifier on its own: checkInterfacePhysicalNCEmpty applied to an  *)
(* arbitrary dump of at most MaxDumpLines lines.                           *)
(***************************************************************************)
\* the state of a run that applies one function to the input in sample
PureInit(samples) ==
    /\ sample \in samples
    /\ outcome = [done |-> FALSE]
    /\ declared = {}
    /\ conf = {}
    /\ lockHolder = 0
    /\ mutex = 0
    /\ tfId = [r \in Resources |-> FALSE]
    /\ tfAE = [i \in IfNames |-> ""]
    /\ proc = [p \in {} |-> IdleProc]
    /\ ret = NoReturn

\* the lines a dump of an interface may hold
ClassifierLines ==
    {<<"set", "description", "NC">>,
     <<"set", "disable">>,
     <<"set", "description", Quote("d1")>>,
     <<"set", "apply-groups", "grpdel">>,
     <<"set", "apply-groups", "other">>,
     <<"set", "unit", "0", "family", "inet">>,
     <<"set", "unit", "0", "family", "ethernet-switching", "interface-mode", "trunk">>,
     <<>>,
     <<emptyWord>>,
     <<MarkerOpen>>,
     <<MarkerClose>>}

ClassifierDumps == UNION {[1..n -> ClassifierLines] : n \in 0..MaxDumpLines}

ClassifierInit ==
    PureInit([dump : ClassifierDumps, group : {"", "grpdel"}])

\* checkInterfacePhysicalNCEmpty after its query succeeded with sample.dump
ClassifyStep ==
    /\ ~outcome.done
    /\ outcome' = [done |-> TRUE, val |-> ClassifyNCEmpty(sample.dump, sample.group)]
    /\ UNCHANGED <<conf, lockHolder, mutex, tfId, tfAE, proc, ret, declared, sample>>

SpecClassifier == ClassifierInit /\ [][ClassifyStep]_vars

(***************************************************************************)
(* The codecs on their own: the statements the encoder emits for a valid   *)
(* option record, read back by the decoder.                                *)
(***************************************************************************)
\* the esi lists of the sampled interface records: mode is required
EsiSamples ==
    {<<>>, <<NilEsi>>}
    \cup {<<[NewEsi EXCEPT !.mode = m]>> : m \in EsiModes}
    \cup {<<[NewEsi EXCEPT !.mode = "all-active", !.auto_derive_lacp = TRUE]>>,
          <<[NewEsi EXCEPT !.mode = "all-active", !.df_election_type = "mod"]>>,
          <<[NewEsi EXCEPT !.mode = "single-active", !.source_bmac = "00:11:22:33:44:55"]>>}
    \cup {<<[NewEsi EXCEPT !.mode = "all-active", !.identifier = i]>> : i \in EsiIdentifiers}

\* valid option records of junos_interface_physical
InterfaceSamples ==
    {[BasePlan("ge0") EXCEPT !.description = de, !.esi = e, !.ether802_3ad = ae, !.trunk = tr,
                             !.vlan_members = vm, !.vlan_native = vn, !.vlan_tagging = vt] :
        de \in {"", "d1"}, e \in EsiSamples, ae \in {"", AeName(0)}, tr \in BOOLEAN,
        vm \in {<<>>, <<"v10">>}, vn \in {0, 5}, vt \in BOOLEAN}
    \cup
    {[BasePlan(AeName(MaxAE)) EXCEPT !.ae_lacp = la, !.ae_link_speed = ls,
                                     !.ae_minimum_links = ml, !.description = de, !.esi = e] :
        la \in {"", "active"}, ls \in {"", "10g"}, ml \in {0, 2}, de \in {"", "d1"},
        e \in EsiSamples}

\* valid option records of junos_security_utm_policy
PolicySamples ==
    {[BasePolicy("p1") EXCEPT !.anti_spam_smtp_profile = sp, !.anti_virus = av,
                              !.content_filtering = cf, !.traffic_sessions_per_client = t,
                              !.web_filtering_profile = wf] :
        sp \in {"", "av1"},
        av \in {<<>>, <<[genMapUtmPolicyProfile EXCEPT !.http_profile = "av1"]>>,
                <<[genMapUtmPolicyProfile EXCEPT !.ftp_download_profile = "av1",
                                                 !.smtp_profile = "av2"]>>},
        cf \in {<<>>, <<[genMapUtmPolicyProfile EXCEPT !.imap_profile = "av2"]>>},
        t \in {<<>>, <<NewSessPerClient>>, <<[NewSessPerClient EXCEPT !.limit = 0]>>,
               <<[NewSessPerClient EXCEPT !.over_limit = "log-and-permit"]>>,
               <<[NewSessPerClient EXCEPT !.limit = 5, !.over_limit = "block"]>>},
        wf \in {"", "av2"}}

CodecInit ==
    PureInit({[kind |-> "interface", d |-> d] : d \in InterfaceSamples}
             \cup {[kind |-> "policy", d |-> d] : d \in PolicySamples})

\* the lines of "show configuration <path> | display set relative" that
\* the set statements of an encoder put under path
RECURSIVE DumpOfStatements(_, _)
DumpOfStatements(statements, path) ==
    IF statements = <<>> THEN <<>>
    ELSE LET st == Head(statements) IN
         (IF st[1] = "set" /\ HasPrefix(Tail(st), path) /\ Len(st) > Len(path) + 1
          THEN <<<<setLineStart>> \o TrimPrefix(Tail(st), path)>>
          ELSE <<>>)
         \o DumpOfStatements(Tail(statements), path)

\* sess.command on a path that holds lines: they come back, or the empty
\* sentinel when there is none
DumpOrEmpty(lines) == IF lines = <<>> THEN << <<emptyWord>> >> ELSE lines

\* setInterfacePhysical on an empty device, then readInterfacePhysical
RoundTripInterface ==
    /\ ~outcome.done
    /\ sample.kind = "interface"
    /\ LET show == Command({}, <<"interfaces">>, TRUE)
           set == setInterfacePhysical(sample.d, "", show, show)
           rd == readInterfacePhysical(
                     DumpOrEmpty(DumpOfStatements(set.staged, IfPath(sample.d.name))))
       IN outcome' = [done |-> TRUE, err |-> (set.err # "" \/ rd.err # <<>>), val |-> rd.opt,
                      statements |-> set.staged]
    /\ UNCHANGED <<conf, lockHolder, mutex, tfId, tfAE, proc, ret, declared, sample>>

\* setUtmPolicy, then readUtmPolicy
RoundTripPolicy ==
    /\ ~outcome.done
    /\ sample.kind = "policy"
    /\ LET set == setUtmPolicy(sample.d)
           rd == readUtmPolicy(sample.d.name,
                     DumpOrEmpty(DumpOfStatements(set.configSet, PolicyPath(sample.d.name))))
       IN outcome' = [done |-> TRUE, err |-> (set.err # "" \/ rd.err # <<>>), val |-> rd.opt,
                      statements |-> set.configSet]
    /\ UNCHANGED <<conf, lockHolder, mutex, tfId, tfAE, proc, ret, declared, sample>>

SpecCodec == CodecInit /\ [][RoundTripInterface \/ RoundTripPolicy]_vars

(***************************************************************************)
(* The encoders on their own: the statements setInterfacePhysical and      *)
(* setUtmPolicy emit for an option record, a record with a nested block    *)
(* that is present without content (a nil element) included.               *)
(***************************************************************************)
\* policy records with one nested block present without content
PolicyNilSamples ==
    {[BasePolicy("p1") EXCEPT !.anti_spam_smtp_profile = sp, !.anti_virus = <<NilProfile>>] :
        sp \in {"", "av1"}}
    \cup {[BasePolicy("p1") EXCEPT !.anti_spam_smtp_profile = sp,
                                   !.content_filtering = <<NilProfile>>] : sp \in {"", "av1"}}
    \cup {[BasePolicy("p1") EXCEPT !.anti_spam_smtp_profile = sp,
                                   !.traffic_sessions_per_client = <<NilSessPerClient>>] :
             sp \in {"", "av1"}}

EncodeInit ==
    PureInit({[kind |-> "interface", d |-> d] : d \in InterfaceSamples}
             \cup {[kind |-> "policy", d |-> d] : d \in PolicySamples \cup PolicyNilSamples})

\* setInterfacePhysical on a device without configuration
EncodeInterface ==
    /\ ~outcome.done
    /\ sample.kind = "interface"
    /\ LET show == Command({}, <<"interfaces">>, TRUE)
           set == setInterfacePhysical(sample.d, "", show, show)
       IN outcome' = [done |-> TRUE, err |-> set.err, statements |-> set.staged]
    /\ UNCHANGED <<conf, lockHolder, mutex, tfId, tfAE, proc, ret, declared, sample>>

\* setUtmPolicy
EncodePolicy ==
    /\ ~outcome.done
    /\ sample.kind = "policy"
    /\ LET set == setUtmPolicy(sample.d)
       IN outcome' = [done |-> TRUE, err |-> set.err, statements |-> set.configSet]
    /\ UNCHANGED <<conf, lockHolder, mutex, tfId, tfAE, proc, ret, declared, sample>>

SpecEncode == EncodeInit /\ [][EncodeInterface \/ EncodePolicy]_vars

(***************************************************************************)
(* The decoders on their own: readInterfacePhysical and readUtmPolicy on   *)
(* an arbitrary dump of at most MaxDumpLines lines.                        *)
(***************************************************************************)
\* lines a dump of an interface may hold: numeric fields with and without
\* an integer, other recognized lines, lines no pattern matches
InterfaceDecodeLines ==
    {<<"set", "aggregated-ether-options", "minimum-links", "2">>,
     <<"set", "aggregated-ether-options", "minimum-links", "many">>,
     <<"set", "aggregated-ether-options", "lacp", "active">>,
     <<"set", "native-vlan-id", "5">>,
     <<"set", "native-vlan-id", "none">>,
     <<"set", "native-vlan-id">>,
     <<"set", "description", Quote("d1")>>,
     <<"set", "esi", "all-active">>,
     <<"set", "esi", "single-active">>,
     <<"set", "esi", "unknown", "x">>,
     <<"set", "unit", "0", "family", "inet">>,
     <<"set", "mtu", "jumbo">>,
     <<MarkerClose>>}

\* lines a dump of a policy may hold
PolicyDecodeLines ==
    {<<"set", "traffic-options", "sessions-per-client", "limit", "5">>,
     <<"set", "traffic-options", "sessions-per-client", "limit", "many">>,
     <<"set", "traffic-options", "sessions-per-client", "over-limit", "block">>,
     <<"set", "anti-spam", "smtp-profile", Quote("av1")>>,
     <<"set", "anti-virus", "http-profile", Quote("av1")>>,
     <<"set", "anti-virus", "http-profile", Quote("av2")>>,
     <<"set", "anti-virus", "unknown-profile", Quote("av2")>>,
     <<"set", "web-filtering", "http-profile", Quote("av2")>>,
     <<"set", "url-filtering", "many">>,
     <<MarkerClose>>}

DumpsOver(lines) == UNION {[1..n -> lines] : n \in 0..MaxDumpLines}

DecodeInit ==
    PureInit({[kind |-> "interface", dump |-> dump] : dump \in DumpsOver(InterfaceDecodeLines)}
             \cup {[kind |-> "policy", dump |-> dump] : dump \in DumpsOver(PolicyDecodeLines)})

\* readInterfacePhysical after its query succeeded with sample.dump
DecodeInterface ==
    /\ ~outcome.done
    /\ sample.kind = "interface"
    /\ LET rd == readInterfacePhysical(sample.dump)
       IN outcome' = [done |-> TRUE, failed |-> rd.err # <<>>, err |-> rd.err, val |-> rd.opt]
    /\ UNCHANGED <<conf, lockHolder, mutex, tfId, tfAE, proc, ret, declared, sample>>

\* readUtmPolicy after its query succeeded with sample.dump
DecodePolicy ==
    /\ ~outcome.done
    /\ sample.kind = "policy"
    /\ LET rd == readUtmPolicy("p1", sample.dump)
       IN outcome' = [done |-> TRUE, failed |-> rd.err # <<>>, err |-> rd.err, val |-> rd.opt]
    /\ UNCHANGED <<conf, lockHolder, mutex, tfId, tfAE, proc, ret, declared, sample>>

SpecDecode == DecodeInit /\ [][DecodeInterface \/ DecodePolicy]_vars

(***************************************************************************)
(* The allocator on its own: a child interface leaves its parent, by a     *)
(* delete or by an update that binds it to another parent.                 *)
(***************************************************************************)
\* configurations of children and parents, the child that leaves its
\* parent, and the parent it is bound to next (ae-1 when it is deleted)
AllocatorSamples ==
    {s \in [bind : [PhysNames -> AENames \cup {""}], parents : SUBSET AENames,
            interFace : PhysNames, newAE : AENames \cup {AeNone}] :
        /\ s.bind[s.interFace] # ""
        /\ s.newAE # s.bind[s.interFace]}

\* the committed configuration of a sample: the two 802.3ad leaves
\* setInterfacePhysical writes for each bound child, and a leaf of
\* aggregated-ether-options for each declared parent
AllocatorConf(s) ==
    {IfPath(x) \o <<"ether-options", "802.3ad", s.bind[x]>> :
         x \in {y \in PhysNames : s.bind[y] # ""}}
    \cup {IfPath(x) \o <<"gigether-options", "802.3ad", s.bind[x]>> :
              x \in {y \in PhysNames : s.bind[y] # ""}}
    \cup {IfPath(a) \o <<"aggregated-ether-options", "minimum-links", "2">> : a \in s.parents}

AllocatorInit == PureInit(AllocatorSamples)

\* interfaceAggregatedLastChild and interfaceAggregatedCountSearchMax as
\* delInterfacePhysical and setInterfacePhysical call them for the child
AllocateStep ==
    /\ ~outcome.done
    /\ LET showConf == ShowInterfaces(AllocatorConf(sample))
           oldAE == sample.bind[sample.interFace]
       IN outcome' =
              [done |-> TRUE,
               lastChild |-> interfaceAggregatedLastChild(showConf, oldAE, sample.interFace),
               count |-> interfaceAggregatedCountSearchMax(sample.newAE, oldAE, sample.interFace,
                                                           showConf, showConf)]
    /\ UNCHANGED <<conf, lockHolder, mutex, tfId, tfAE, proc, ret, declared, sample>>

SpecAllocator == AllocatorInit /\ [][AllocateStep]_vars

(***************************************************************************)
(* The count on its own: interfaceAggregatedCountSearchMax on an arbitrary *)
(* interfaces dump of at most MaxDumpLines lines, called with no previous  *)
(* binding (oldAE = "ae-1") as the create of a parent or of a child does.  *)
(***************************************************************************)
\* the dumps (lines of parents and children with indices of one and two
\* digits, in every order) and the interface that asks: a new parent, named
\* as newAE, or a child bound to newAE
CountInit ==
    PureInit([dump : DumpsOver({<<"set", "ae1", "aggregated-ether-options", "minimum-links", "2">>,
                                <<"set", "ae3", "aggregated-ether-options", "lacp", "active">>,
                                <<"set", "ae7", "description", Quote("d1")>>,
                                <<"set", "ae10", "aggregated-ether-options", "lacp", "active">>,
                                <<"set", "ge0", "ether-options", "802.3ad", "ae9">>,
                                <<"set", "ge0", "gigether-options", "802.3ad", "ae2">>,
                                <<"set", "ge0", "description", Quote("d1")>>}),
              newAE : {"ae0", "ae8", "ae11"},
              interFace : {"", "ge1"}])

\* interfaceAggregatedCountSearchMax(newAE, "ae-1", interFace) after both
\* queries succeeded with sample.dump
CountStep ==
    /\ ~outcome.done
    /\ LET interFace == IF sample.interFace = "" THEN sample.newAE ELSE sample.interFace
       IN outcome' =
              [done |-> TRUE,
               count |-> interfaceAggregatedCountSearchMax(sample.newAE, AeNone, interFace,
                                                           sample.dump, sample.dump)]
    /\ UNCHANGED <<conf, lockHolder, mutex, tfId, tfAE, proc, ret, declared, sample>>

SpecCount == CountInit /\ [][CountStep]_vars

(***************************************************************************)
(* Properties.                                                             *)
(***************************************************************************)
\* the indices N of the ae<N> the interfaces configuration references: as
\* a declared parent or as the 802.3ad binding of a child
ReferencedAE(c) ==
    {AeNum(l[2]) : l \in {x \in c : x[1] = "interfaces" /\ IsAeWord(x[2])}}
    \cup {AeNum(LastWord(l)) :
             l \in {x \in c : /\ x[1] = "interfaces"
                              /\ Len(x) >= 5
                              /\ x[Len(x) - 1] = "802.3ad"
                              /\ IsAeWord(LastWord(x))}}

HasDeviceCount(c) == \E l \in c : HasPrefix(l, DeviceCountPath)

MaxOf(S) == CHOOSE n \in S : \A m \in S : m <= n

\* C1: the committed device-count equals max(N)+1 over every ae<N> the
\* interfaces configuration references, and is absent when it references
\* none.
C1_DeviceCountExact ==
    IF ReferencedAE(conf) = {}
    THEN ~HasDeviceCount(conf)
    ELSE HasDeviceCount(conf) /\ DeviceCount(conf) = MaxOf(ReferencedAE(conf)) + 1

\* C2: the committed device-count is strictly greater than the index of
\* every ae<N> that is declared as a parent or named by an 802.3ad binding.
C2_DeviceCountSufficient == \A n \in ReferencedAE(conf) : DeviceCount(conf) > n

\* operation p returns to its caller in this step, from a step after its
\* lock step
ReturnsPastLock(p) == proc[p].pc # "idle" /\ proc'[p].pc = "idle"

\* what r records is a failure that was detected after a commit of r
FailedAfterCommit(r) ==
    r.commits > 0 /\ (r.res # "ok" \/ r.warn \/ r.post \in {"failed", "nc", "absent"})

\* an operation that fails after its lock step and before its first commit
\* has discarded its staged edits when it returns, and commits nothing
DiscardBeforeCommit ==
    \A p \in DOMAIN proc :
        (ReturnsPastLock(p) /\ ret'.res # "ok" /\ ret'.commits = 0)
            => (ret'.cleared /\ conf' = conf)

\* C3 (as stated): a failure before the commit discards the staged edits
\* and no commit follows; a failure detected after a successful commit is
\* returned as an error, the committed configuration staying as it is.
C3_FailureAfterCommitIsError ==
    [][/\ DiscardBeforeCommit
       /\ \A p \in DOMAIN proc :
             (ReturnsPastLock(p) /\ FailedAfterCommit(ret'))
                 => (ret'.res # "ok" /\ conf' = conf)]_vars

\* C3 (amended): a failure before the commit discards the staged edits and
\* no commit follows; a failure detected after a successful commit is
\* reported, as an error or (the inventory lookup of an interface delete)
\* as a warning beside a success, the committed configuration staying as it
\* is.
C3_FailureDiscardsOrReports ==
    [][/\ DiscardBeforeCommit
       /\ \A p \in DOMAIN proc :
             (ReturnsPastLock(p) /\ FailedAfterCommit(ret'))
                 => ((ret'.res # "ok" \/ ret'.warn) /\ conf' = conf)]_vars

\* an update whose options fail validation has returned, its edits discarded
C3_Witness ==
    /\ ret.pc = "returned" /\ ret.op = "ifUpdate" /\ ret.res = "validation"
    /\ ret.cleared /\ ret.commits = 0

\* C4: no statement is staged on the device by an operation that has not
\* acquired the configuration lock.
C4_StagedOnlyUnderLock ==
    \A p \in DOMAIN proc : proc[p].staged # <<>> => lockHolder = p

\* the lifecycle state spec section 4.3 gives a filtered statement sequence
LifecycleState(lines, group) ==
    IF lines = <<>> \/ lines = << <<emptyWord>> >> THEN "Empty"
    ELSE IF \/ /\ Len(lines) = 2
               /\ {lines[1], lines[2]} = {<<"set", "description", "NC">>, <<"set", "disable">>}
            \/ /\ Len(lines) = 1
               /\ group # ""
               /\ lines[1] = <<"set", "apply-groups", group>>
    THEN "NotConfigured"
    ELSE "Present"

\* C5: the classifier returns Empty, NotConfigured or Present as section
\* 4.3 defines them on the filtered statement sequence, and never sets both
\* of its flags.
C5_ClassifierThreeWay ==
    outcome.done =>
        LET state == LifecycleState(NCEmptyLines(sample.dump), sample.group) IN
        /\ ~(outcome.val.nc /\ outcome.val.empty)
        /\ outcome.val.empty <=> state = "Empty"
        /\ outcome.val.nc <=> state = "NotConfigured"
        /\ (~outcome.val.nc /\ ~outcome.val.empty) <=> state = "Present"

\* the classifier has met the parked pattern, disable first, behind a unit
\* line it filters out
C5_Witness ==
    /\ outcome.done
    /\ sample.dump = << <<"set", "unit", "0", "family", "inet">>, <<"set", "disable">>,
                        <<"set", "description", "NC">> >>
    /\ outcome.val.nc

\* a nested block list in canonical form: a missing block, a nil block and
\* a block with every field unset are the same absence
NormalBlock(list, unset) ==
    IF list = <<>> THEN <<>>
    ELSE IF list[1].nil \/ list[1] = unset THEN <<>>
    ELSE list

\* normalize(o) for an interface record, in the decoder's fields
NormalInterface(d) ==
    [trunk |-> d.trunk, vlanTagging |-> d.vlan_tagging, aeMinLink |-> d.ae_minimum_links,
     vlanNative |-> d.vlan_native, aeLacp |-> d.ae_lacp, aeLinkSpeed |-> d.ae_link_speed,
     description |-> d.description, v8023ad |-> d.ether802_3ad,
     vlanMembers |-> d.vlan_members, esi |-> NormalBlock(d.esi, NewEsi)]

\* normalize(o) for a policy record, in the decoder's fields; a policy
\* with nothing set has no configuration, and no name to read back
NormalPolicy(d) ==
    LET opt == [name |-> d.name, antiSpamSMTPProfile |-> d.anti_spam_smtp_profile,
                webFilteringProfile |-> d.web_filtering_profile,
                antiVirus |-> NormalBlock(d.anti_virus, genMapUtmPolicyProfile),
                contentFiltering |-> NormalBlock(d.content_filtering, genMapUtmPolicyProfile),
                trafficSessionsPerClient |->
                    NormalBlock(d.traffic_sessions_per_client, NewSessPerClient)]
    IN IF [opt EXCEPT !.name = ""] = ZeroUtmPolicyOptions THEN ZeroUtmPolicyOptions ELSE opt

\* C6: decoding the statements the encoder emits for a valid option record
\* gives the record back, absent blocks and unset fields normalized.
C6_RoundTrip ==
    outcome.done =>
        /\ ~outcome.err
        /\ outcome.val = IF sample.kind = "interface" THEN NormalInterface(sample.d)
                         ELSE NormalPolicy(sample.d)

\* the round trip of the policy records alone
PolicyRoundTripHolds == (outcome.done /\ sample.kind = "policy") => C6_RoundTrip

\* the entity operation record q is about has configuration that a create
\* must not overwrite
EntityExists(q) ==
    IF q.op = "ifCreate"
    THEN LifecycleState(NCEmptyLines(Command(conf, IfPath(q.name), TRUE)), junosGroupIntDel)
             = "Present"
    ELSE Command(conf, PolicyPath(q.name), FALSE) # << <<emptyWord>> >>

\* C7: a create whose existence check meets an existing entity returns the
\* conflict error (a transport error if the check's query fails); it has
\* staged nothing, commits nothing, discards pending edits and leaves the
\* identifier unset.
C7_CreateExistingConflicts ==
    [][\A p \in DOMAIN proc :
          LET q == proc[p] IN
          (q.pc \in {"c_check", "pc_check"} /\ proc'[p] # q /\ EntityExists(q))
              => /\ ret'.pc = "returned" /\ ret'.name = q.name
                 /\ ret'.res \in {"conflict", "transport"}
                 /\ q.staged = <<>> /\ ret'.commits = 0 /\ conf' = conf
                 /\ ret'.cleared
                 /\ ~tfId'[q.name]]_vars

\* a create has returned the conflict error
C7_Witness ==
    /\ ret.pc = "returned" /\ ret.res = "conflict" /\ ret.op \in {"ifCreate", "polCreate"}
    /\ ret.cleared /\ ret.commits = 0 /\ ~tfId[ret.name]

\* the device inventory knows the interface
InInventory(c, name) == CommandXML(c, name)[1] = "<interface-information>"

\* the entity of create q is in place in the committed configuration
InPlace(q) ==
    IF q.op = "ifCreate"
    THEN LET state == LifecycleState(NCEmptyLines(Command(conf, IfPath(q.name), TRUE)),
                                     junosGroupIntDel)
         IN state # "NotConfigured" /\ ~(state = "Empty" /\ ~InInventory(conf, q.name))
    ELSE Command(conf, PolicyPath(q.name), FALSE) # << <<emptyWord>> >>

\* C8: the verification step after the commit of a create sets the
\* identifier and lets the create go on only if the entity is in place;
\* if it is not (and the query of the check did not fail) the create
\* returns the inconsistency error with the identifier unset; a create that
\* reports success has passed that verification.
C8_CreateVerified ==
    [][/\ \A p \in DOMAIN proc :
             LET q == proc[p] IN
             (q.pc \in {"c_verify", "pc_verify"} /\ proc'[p] # q)
                 => /\ (tfId'[q.name] \/ proc'[p].pc # "idle") => (InPlace(q) /\ tfId'[q.name])
                    /\ (~InPlace(q) /\ ret'.post # "failed")
                           => (ret'.pc = "returned" /\ ret'.res = "inconsistent"
                               /\ ~tfId'[q.name])
       /\ (ret'.op \in {"ifCreate", "polCreate"} /\ ret'.res = "ok") => ret'.post = "inplace"]_vars

\* a create of an interface the device does not have, with nothing to
\* configure, has returned the inconsistency error
C8_Witness ==
    /\ ret.pc = "returned" /\ ret.op = "ifCreate" /\ ret.post = "absent"
    /\ ret.res = "inconsistent" /\ ret.commits = 1 /\ ~tfId[ret.name]

\* operation p is between its lock step and its last commit
InMutation(p) ==
    proc[p].pc \in {"c_check", "c_set", "c_commit", "u_set", "u_commit", "d_del", "d_commit",
                    "d_park", "d_commit2", "pc_check", "pc_set", "pc_commit", "pu_set",
                    "pu_commit", "pd_del", "pd_commit"}

\* C9: the lock-to-commit sections of two concurrent operations never
\* interleave.
C9_MutationSerialized ==
    \A p, q \in DOMAIN proc : (p # q /\ InMutation(p)) => ~InMutation(q)

\* C10 (as stated): every mutating operation that reports success after a
\* commit has re-read the entity under the mutex, and has run no check
\* after the commit outside the mutex.
C10_AllVerifiedUnderMutex ==
    (ret.pc = "returned" /\ ret.commits > 0 /\ ret.res = "ok")
        => (ret.guarded /\ ~ret.unguarded)

\* C10 (amended): every create and update that reports success after its
\* commit has re-read the entity under the mutex; the checks run outside
\* the mutex after a commit are those of the interface create and delete.
C10_CreateUpdateVerifiedUnderMutex ==
    /\ (ret.pc = "returned" /\ ret.commits > 0 /\ ret.res = "ok"
        /\ ret.op \in {"ifCreate", "ifUpdate", "polCreate", "polUpdate"}) => ret.guarded
    /\ (ret.pc = "returned" /\ ret.unguarded) => ret.op \in {"ifCreate", "ifDelete"}
    /\ \A p \in DOMAIN proc : proc[p].pc \in {"r_read", "pr_read", "pc_verify"} => mutex = p

\* an interface update has reported success after its guarded read
C10_Witness ==
    /\ ret.pc = "returned" /\ ret.op = "ifUpdate" /\ ret.res = "ok"
    /\ ret.commits = 1 /\ ret.guarded

\* operation p stands before the commit of an interface create, update or
\* delete
BeforeIfCommit(p) == proc[p].pc \in {"c_commit", "u_commit", "d_commit"}

\* the operation of p touches an aggregated parent or a child's 802.3ad
\* binding: its interface is ae<N>, or it has, gets or loses a binding
TouchesAggregate(p) ==
    \/ NameHasPrefixAe(proc[p].name)
    \/ proc[p].d.ether802_3ad # ""
    \/ tfAE[proc[p].name] # ""

IsCountStatement(st) == HasPrefix(Tail(st), DeviceCountPath)

StagesDeviceCount(p) == \E i \in 1..Len(proc[p].staged) : IsCountStatement(proc[p].staged[i])

\* C11: every interface create, update and delete that touches an
\* aggregated parent or a child's 802.3ad binding has staged, when it comes
\* to its commit, a set or delete statement for the device-count it
\* re-derived from its own scan.
C11_CountRederivedByEveryOperation ==
    \A p \in DOMAIN proc : (BeforeIfCommit(p) /\ TouchesAggregate(p)) => StagesDeviceCount(p)

\* no operation stages "set chassis aggregated-devices ethernet device-count 0"
NeverStagesCountZero ==
    \A p \in DOMAIN proc : \A i \in 1..Len(proc[p].staged) :
        proc[p].staged[i] # <<"set">> \o DeviceCountPath \o <<"0">>

\* the commit operation p stands before removes the last reference to an
\* aggregated interface from the interfaces configuration
RemovesLastReference(p) ==
    /\ BeforeIfCommit(p)
    /\ ReferencedAE(conf) # {}
    /\ ReferencedAE(ApplyAll(conf, proc[p].staged)) = {}

\* C12: the device-count is never set to 0, and an operation that removes
\* the last remaining aggregated reference stages the delete of the
\* device-count.
C12_CountDeletedNeverZero ==
    /\ NeverStagesCountZero
    /\ \A p \in DOMAIN proc :
          RemovesLastReference(p)
              => \E i \in 1..Len(proc[p].staged) :
                    proc[p].staged[i] = <<"delete">> \o DeviceCountPath

\* the part of C12 the delete handler keeps: a delete that removes the last
\* aggregated reference stages the delete of the device-count
DeleteOfLastReferenceDeletesCount ==
    \A p \in DOMAIN proc :
        (RemovesLastReference(p) /\ proc[p].pc = "d_commit")
            => \E i \in 1..Len(proc[p].staged) :
                  proc[p].staged[i] = <<"delete">> \o DeviceCountPath

\* how many of the truth values are TRUE
CountTrue(flags) == Cardinality({i \in 1..Len(flags) : flags[i]})

PopulatedEsi(m) ==
    CountTrue(<<m.mode # "", m.auto_derive_lacp, m.df_election_type # "", m.identifier # "",
                m.source_bmac # "">>)

PopulatedProfile(m) ==
    CountTrue([i \in 1..Len(ProfileFields) |-> m[ProfileFields[i][1]] # ""])

PopulatedSessPerClient(m) == CountTrue(<<m.limit # -1, m.over_limit # "">>)

\* the statements an encoder emitted under the prefix of a nested block
UnderEsi(st) == Len(st) >= 4 /\ st[2] = "interfaces" /\ st[4] = "esi"

UnderAntiVirus(st) == Len(st) >= 6 /\ st[2] = "security" /\ st[6] = "anti-virus"

UnderContentFiltering(st) == Len(st) >= 6 /\ st[2] = "security" /\ st[6] = "content-filtering"

UnderSessPerClient(st) ==
    Len(st) >= 7 /\ st[2] = "security" /\ st[6] = "traffic-options"
    /\ st[7] = "sessions-per-client"

\* the block list holds a block with content
HasBlock(list) == list # <<>> /\ ~list[1].nil

\* the policy encoder alone emits one statement for each populated
\* sub-field of its nested blocks
PolicyBlocksOnePerField ==
    (outcome.done /\ sample.kind = "policy" /\ outcome.err = "") =>
        /\ HasBlock(sample.d.anti_virus) =>
              Cardinality({i \in 1..Len(outcome.statements) : UnderAntiVirus(outcome.statements[i])})
                  = PopulatedProfile(sample.d.anti_virus[1])
        /\ HasBlock(sample.d.content_filtering) =>
              Cardinality({i \in 1..Len(outcome.statements) : UnderContentFiltering(outcome.statements[i])})
                  = PopulatedProfile(sample.d.content_filtering[1])
        /\ HasBlock(sample.d.traffic_sessions_per_client) =>
              Cardinality({i \in 1..Len(outcome.statements) : UnderSessPerClient(outcome.statements[i])})
                  = PopulatedSessPerClient(sample.d.traffic_sessions_per_client[1])

\* C13: for a populated nested sub-record (ESI, anti-virus,
\* content-filtering, sessions-per-client) the encoder emits as many
\* statements under the block's prefix as the block has populated
\* sub-fields.
C13_OneStatementPerSubField ==
    /\ PolicyBlocksOnePerField
    /\ (outcome.done /\ sample.kind = "interface" /\ outcome.err = ""
        /\ HasBlock(sample.d.esi)) =>
           Cardinality({i \in 1..Len(outcome.statements) : UnderEsi(outcome.statements[i])}) = PopulatedEsi(sample.d.esi[1])

\* the record holds a nested block list with a nil element
HasNilContainer(d, kind) ==
    IF kind = "interface" THEN d.esi # <<>> /\ d.esi[1].nil
    ELSE \/ d.anti_virus # <<>> /\ d.anti_virus[1].nil
         \/ d.content_filtering # <<>> /\ d.content_filtering[1].nil
         \/ d.traffic_sessions_per_client # <<>> /\ d.traffic_sessions_per_client[1].nil

\* the policy encoder alone rejects a nil element of its three block lists
PolicyNilContainerRejected ==
    (outcome.done /\ sample.kind = "policy" /\ HasNilContainer(sample.d, "policy"))
        => (outcome.err = "validation" /\ outcome.statements = <<>>)

\* C14: the encoders reject with a validation error a record with a nested
\* block that is present without content (a nil element in the esi,
\* anti_virus, content_filtering or traffic_sessions_per_client list), and
\* hand no statement over.
C14_NilContainerRejected ==
    (outcome.done /\ HasNilContainer(sample.d, sample.kind))
        => (outcome.err = "validation" /\ outcome.statements = <<>>)

\* the planned options carry an aggregation-only attribute for an interface
\* that is no ae<N>
AggregationOnlyOnPhysical(d) ==
    /\ d.name \notin AENames
    /\ (d.ae_lacp # "" \/ d.ae_link_speed # "" \/ d.ae_minimum_links > 0)

\* C15: a create or update that sets an aggregation-only attribute on an
\* interface whose name does not start with "ae" returns the validation
\* error from its encoding step (the transport error, if a call before the
\* test failed); it reaches no commit, the configuration stays as it is and
\* everything it staged, the delete statements included, is discarded.
C15_AggregationOnlyRejectedWhole ==
    [][\A p \in DOMAIN proc :
          LET q == proc[p] IN
          (q.pc \in {"c_set", "u_set"} /\ AggregationOnlyOnPhysical(q.d) /\ proc'[p] # q)
              => /\ ret'.pc = "returned" /\ ret'.name = q.name
                 /\ ret'.res \in {"validation", "transport"}
                 /\ ret'.cleared /\ ret'.staged = <<>>
                 /\ ret'.commits = 0 /\ conf' = conf
                 /\ tfId' = tfId]_vars

\* the create of a parked physical interface with an aggregation-only
\* attribute has returned the validation error
C15_Witness ==
    /\ ret.pc = "returned" /\ ret.op = "ifCreate" /\ ret.name \notin AENames
    /\ ret.nc /\ ret.res = "validation" /\ ret.cleared /\ ret.commits = 0
    /\ ~tfId[ret.name]

\* the paths of the numeric fields of a resource kind
NumericPaths(kind) ==
    IF kind = "interface"
    THEN {<<"aggregated-ether-options", "minimum-links">>, <<"native-vlan-id">>}
    ELSE {<<"traffic-options", "sessions-per-client", "limit">>}

\* the statement gives a numeric field a text that is no integer
BadNumeric(line, kind) ==
    \E path \in NumericPaths(kind) :
        /\ HasPrefix(line, <<setLineStart>> \o path)
        /\ ~Atoi(WordOf(TrimPrefix(line, <<setLineStart>> \o path))).ok

\* a decoder fails only on a dump that gives a numeric field a text that is
\* no integer
DecodeFailsOnlyOnNumeric ==
    (outcome.done /\ outcome.failed)
        => \E i \in 1..Len(sample.dump) : BadNumeric(sample.dump[i], sample.kind)

\* the failure returned names a statement of the dump that gives a numeric
\* field a text that is no integer
IdentifiesOffendingStatement ==
    \E i \in 1..Len(sample.dump) :
        /\ BadNumeric(sample.dump[i], sample.kind)
        /\ outcome.err = Tail(sample.dump[i])

\* the failure of the interface decoder names the offending statement
InterfaceDecodeIdentifiesStatement ==
    (outcome.done /\ outcome.failed /\ sample.kind = "interface") => IdentifiesOffendingStatement

\* C16: decode fails only when a numeric field (minimum-links,
\* native-vlan-id, sessions-per-client limit) carries a text that is no
\* integer, and the failure it returns identifies the offending statement;
\* no other statement makes it fail.
C16_DecodeFailsOnNumericOnly ==
    /\ DecodeFailsOnlyOnNumeric
    /\ (outcome.done /\ outcome.failed) => IdentifiesOffendingStatement

\* an operation whose sess.configLock call failed has returned at once: an
\* operation that goes on holds the configuration lock
LockFailureSurfaced == \A p \in DOMAIN proc : proc[p].pc # "idle" => lockHolder = p

\* the handlers call each collaborator once: no step of an operation leaves
\* it where it was
NoCallRepeated ==
    [][\A p \in DOMAIN proc : proc'[p] # proc[p] => proc'[p].pc # proc[p].pc]_vars

\* C17: a failed collaborator call (lock, query, inventory lookup, apply,
\* commit) makes the operation return a failure: no operation goes on after
\* its lock call failed, and none reports success after a call of it failed.
C17_FailedCallSurfaced ==
    /\ LockFailureSurfaced
    /\ (ret.pc = "returned" /\ ret.warn) => ret.res # "ok"

\* the lifecycle state of interface name in configuration c
StateOf(c, name) ==
    LifecycleState(NCEmptyLines(Command(c, IfPath(name), TRUE)), junosGroupIntDel)

\* an import of the interface is not a meaningful operation: it is parked,
\* or it has no configuration and the device does not have it
NotImportable(c, name) ==
    \/ StateOf(c, name) = "NotConfigured"
    \/ StateOf(c, name) = "Empty" /\ ~InInventory(c, name)

\* C18: the import of an interface that is NotConfigured, or Empty and
\* absent from the device inventory, never gets to read the interface: it
\* returns an error and no resource.
C18_ImportRejected ==
    /\ \A p \in DOMAIN proc :
          (proc[p].op = "ifImport" /\ proc[p].pc = "i_read") => ~NotImportable(conf, proc[p].name)
    /\ (ret.pc = "returned" /\ ret.op = "ifImport" /\ ~HasDot(ret.name)
        /\ NotImportable(conf, ret.name))
           => (ret.res # "ok" /\ ~tfId[ret.name])

\* the import of a parked interface has been rejected
C18_Witness ==
    /\ ret.pc = "returned" /\ ret.op = "ifImport" /\ ret.res = "parked"
    /\ StateOf(conf, ret.name) = "NotConfigured" /\ ~tfId[ret.name]

\* the import of an interface without configuration that the device does
\* not have has been rejected
ImportOfAbsentRejected ==
    /\ ret.pc = "returned" /\ ret.op = "ifImport" /\ ret.res = "notfound"
    /\ StateOf(conf, ret.name) = "Empty" /\ ~InInventory(conf, ret.name)

\* the dump of the entity operation record q is about
EntityDump(c, q) ==
    IF q.op = "polUpdate" THEN Command(c, PolicyPath(q.name), TRUE)
    ELSE Command(c, IfPath(q.name), TRUE)

\* operation p is an update before its commit whose options already match
\* what decoding the device's configuration yields
MatchingUpdate(p) ==
    LET q == proc[p] IN
    \/ /\ q.pc = "u_commit"
       /\ readInterfacePhysical(EntityDump(conf, q)) = [err |-> <<>>, opt |-> NormalInterface(q.d)]
    \/ /\ q.pc = "pu_commit"
       /\ readUtmPolicy(q.name, EntityDump(conf, q)) = [err |-> <<>>, opt |-> NormalPolicy(q.d)]

\* C19 (as stated): an update whose options already match the device's
\* decoded state emits no statement.
C19_MatchingUpdateEmitsNothing ==
    \A p \in DOMAIN proc : MatchingUpdate(p) => proc[p].staged = <<>>

\* C19 (amended): an update whose options already match the decoded state
\* of a configuration the provider wrote stages its delete statements and
\* its set statements all the same, and its commit leaves the
\* configuration of the entity as it was.
C19_MatchingUpdateKeepsEntity ==
    [][\A p \in DOMAIN proc :
          (MatchingUpdate(p) /\ proc'[p].commits = proc[p].commits + 1)
              => /\ proc[p].staged # <<>>
                 /\ proc[p].staged[1][1] = "delete"
                 /\ EntityDump(conf', proc[p]) = EntityDump(conf, proc[p])]_vars

\* an interface update with the binding the interface already has is past
\* its commit, the binding still in place
C19_Witness ==
    \E p \in DOMAIN proc :
        /\ proc[p].op = "ifUpdate" /\ proc[p].pc = "r_lock" /\ proc[p].commits = 1
        /\ proc[p].d.ether802_3ad # ""
        /\ readInterfacePhysical(EntityDump(conf, proc[p])).opt = NormalInterface(proc[p].d)
        /\ tfAE[proc[p].name] = proc[p].d.ether802_3ad

\* another interface's 802.3ad binding names the parent the child leaves
OtherChildRemains(s) ==
    \E x \in PhysNames \ {s.interFace} : s.bind[x] = s.bind[s.interFace]

\* the indices the configuration references once the child has left:
\* the bindings of the other children, the declared parents, the new parent
RemainingIndices(s) ==
    {AeNum(s.bind[x]) : x \in {y \in PhysNames \ {s.interFace} : s.bind[y] # ""}}
    \cup {AeNum(a) : a \in s.parents}
    \cup (IF s.newAE = AeNone THEN {} ELSE {AeNum(s.newAE)})

\* the count for a set of indices: one more than the highest, "0" for none
CountFor(indices) == IF indices = {} THEN "0" ELSE Itoa(MaxOf(indices) + 1)

\* C20 (as stated): when no other interface's 802.3ad line names the parent
\* ae<N> the child leaves, the last-child check returns true and the
\* recomputed device-count excludes ae<N>; when another one names it, the
\* check returns false and ae<N> is counted.
C20_LastChildExcludesParent ==
    outcome.done =>
        LET n == AeNum(sample.bind[sample.interFace]) IN
        /\ outcome.count.ok
        /\ outcome.lastChild <=> ~OtherChildRemains(sample)
        /\ IF OtherChildRemains(sample)
           THEN outcome.count.count = CountFor(RemainingIndices(sample) \cup {n})
           ELSE outcome.count.count = CountFor(RemainingIndices(sample) \ {n})

\* C20 (amended): when no other interface's 802.3ad line names the parent
\* ae<N> the child leaves, the last-child check returns true and the
\* recomputed device-count counts ae<N> only if ae<N> is declared as a
\* parent (or is the new parent); when another one names it, the check
\* returns false and ae<N> is counted.
C20_LastChildExcludesBinding ==
    outcome.done =>
        /\ outcome.count.ok
        /\ outcome.lastChild <=> ~OtherChildRemains(sample)
        /\ outcome.count.count = CountFor(RemainingIndices(sample))

\* the sole child of the highest parent is deleted: the check says last
\* child and the count covers what is left
C20_Witness ==
    /\ outcome.done /\ outcome.lastChild
    /\ sample.newAE = AeNone
    /\ sample.bind[sample.interFace] = AeName(MaxAE)
    /\ AeName(MaxAE) \notin sample.parents
    /\ RemainingIndices(sample) # {}
    /\ outcome.count.count = Itoa(MaxOf(RemainingIndices(sample)) + 1)

\* the indices a dump references: the name of a declared parent (second
\* word) and the parent a child's 802.3ad line binds it to (last word)
IndicesIn(dump) ==
    {AeNum(dump[i][2]) : i \in {j \in 1..Len(dump) : dump[j][2] \notin PhysNames}}
    \cup {AeNum(LastWord(dump[i])) : i \in {j \in 1..Len(dump) : dump[j][4] = "802.3ad"}}

\* C21: for a non-empty set of referenced indices and no exclusion, the
\* computed device-count is max(highest referenced index, requested new
\* index) + 1, whatever the order of the lines and the number of digits of
\* the indices.
C21_CountIsMaxPlusOne ==
    (outcome.done /\ IndicesIn(sample.dump) # {}) =>
        /\ outcome.count.ok
        /\ outcome.count.count =
               Itoa(MaxOf(IndicesIn(sample.dump) \cup {AeNum(sample.newAE)}) + 1)

\* parents ae7, ae1, ae3 scanned in this order give 8; the same holds of
\* any other order
C21_Witness ==
    /\ outcome.done
    /\ IndicesIn(sample.dump) = {1, 3, 7}
    /\ AeNum(sample.dump[1][2]) = 7
    /\ sample.newAE = "ae0"
    /\ outcome.count.count = "8"

\* a two-digit index scanned before a one-digit one still decides
CountTwoDigits ==
    /\ outcome.done
    /\ Len(sample.dump) = 2
    /\ sample.dump[1][2] = "ae10" /\ sample.dump[2][2] = "ae3"
    /\ sample.newAE = "ae8"
    /\ outcome.count.count = "11"

\* the statements of a list that equal st
Occurrences(statements, st) == Cardinality({i \in 1..Len(statements) : statements[i] = st})

\* the statements of a list under "set interfaces <name> aggregated-ether-options"
UnderAeOptions(statements, name) ==
    {i \in 1..Len(statements) :
        HasPrefix(statements[i], SetPrefix(name) \o <<"aggregated-ether-options">>)}

\* C22: creating a parent ae<K> on a configuration that references no
\* aggregated interface stages `set chassis aggregated-devices ethernet
\* device-count <K+1>` and one set statement for each populated aggregation
\* attribute.
C22_CreateParentStagesCount ==
    (outcome.done /\ sample.kind = "interface" /\ sample.d.name \in AENames) =>
        LET d == sample.d
            aeo == SetPrefix(d.name) \o <<"aggregated-ether-options">>
        IN
        /\ outcome.err = ""
        /\ Occurrences(outcome.statements,
                       <<"set">> \o DeviceCountPath \o <<Itoa(AeNum(d.name) + 1)>>) = 1
        /\ Cardinality({i \in 1..Len(outcome.statements) :
                           IsCountStatement(outcome.statements[i])}) = 1
        /\ Cardinality(UnderAeOptions(outcome.statements, d.name)) =
               CountTrue(<<d.ae_lacp # "", d.ae_link_speed # "", d.ae_minimum_links > 0>>)
        /\ d.ae_lacp # "" => Occurrences(outcome.statements, aeo \o <<"lacp", d.ae_lacp>>) = 1
        /\ d.ae_link_speed # "" =>
               Occurrences(outcome.statements, aeo \o <<"link-speed", d.ae_link_speed>>) = 1
        /\ d.ae_minimum_links > 0 =>
               Occurrences(outcome.statements,
                           aeo \o <<"minimum-links", Itoa(d.ae_minimum_links)>>) = 1

\* the parent created with ae_minimum_links = 2 alone: its minimum-links
\* statement and the count for its index
C22_Witness ==
    /\ outcome.done /\ sample.kind = "interface"
    /\ sample.d = [BasePlan(AeName(MaxAE)) EXCEPT !.ae_minimum_links = 2]
    /\ Occurrences(outcome.statements,
                   SetPrefix(AeName(MaxAE)) \o <<"aggregated-ether-options", "minimum-links", "2">>) = 1
    /\ Occurrences(outcome.statements,
                   <<"set">> \o DeviceCountPath \o <<Itoa(MaxAE + 1)>>) = 1

\* operation p waits at mutex.Lock()
WaitsForMutex(p) == proc[p].pc \in {"r_lock", "pr_lock", "pc_vlock"}

\* C23: no operation blocks indefinitely. The mutex is not held by an
\* operation that has returned nor by one that requests it, and under fair
\* scheduling every operation that has started returns.
C23_EveryOperationReturns ==
    /\ [](\A p \in Procs : (proc[p].pc = "idle" \/ WaitsForMutex(p)) => mutex # p)
    /\ \A p \in Procs : (proc[p].pc # "idle") ~> (proc[p].pc = "idle")

\* one operation waits for the mutex the other operation holds
C23_Witness ==
    \E p \in Procs : \E q \in Procs \ {p} : WaitsForMutex(p) /\ mutex = q /\ proc[q].pc # "idle"

\* the step removes the last reference to the index that was the highest
RemovesHighestReference ==
    /\ ReferencedAE(conf) # {}
    /\ MaxOf(ReferencedAE(conf)) \notin ReferencedAE(conf')

\* C24: the device-count of the device decreases across an operation only
\* if the operation removed the last remaining reference to the previously
\* highest aggregated index; every other operation leaves it unchanged or
\* raises it.
C24_CountDecreasesOnlyWithHighest ==
    [][DeviceCount(conf') < DeviceCount(conf) => RemovesHighestReference]_vars

\* from a configuration whose device-count is exact, the count decreases
\* only with the last reference to the highest index
CountDecreasesOnlyWithHighestFromExact ==
    [][(C1_DeviceCountExact /\ DeviceCount(conf') < DeviceCount(conf))
           => RemovesHighestReference]_vars

\* the delete statements of the parked markers of an interface
ParkedMarkerDeletes(name) ==
    (IF junosGroupIntDel = "" THEN {}
     ELSE {<<"delete", "interfaces", name, "apply-groups", junosGroupIntDel>>})
    \cup {<<"delete", "interfaces", name, "description">>,
          <<"delete", "interfaces", name, "disable">>}

\* C25: a create on an interface classified NotConfigured stages the delete
\* statements of its parked markers before any set statement, all in the
\* one transaction it commits; a create on an Empty interface stages set
\* statements only.
C25_UnparkBeforeSet ==
    \A p \in DOMAIN proc :
        proc[p].pc = "c_commit" =>
            LET st == proc[p].staged
                k == Cardinality(ParkedMarkerDeletes(proc[p].name))
            IN
            /\ proc[p].commits = 0
            /\ IF StateOf(conf, proc[p].name) = "NotConfigured"
               THEN /\ Len(st) > k
                    /\ {st[i] : i \in 1..k} = ParkedMarkerDeletes(proc[p].name)
                    /\ \A i \in (k + 1)..Len(st) : st[i][1] = "set"
               ELSE /\ StateOf(conf, proc[p].name) = "Empty"
                    /\ \A i \in 1..Len(st) : st[i][1] = "set"

\* a create of a parked interface is before its commit, with options to set
C25_Witness ==
    \E p \in DOMAIN proc :
        /\ proc[p].pc = "c_commit"
        /\ StateOf(conf, proc[p].name) = "NotConfigured"
        /\ proc[p].d.description = "d1"
        /\ Len(proc[p].staged) >= 5

\* the lines of a dump the decoders get to: those before the closing marker
BeforeClose(dump) ==
    LET idx == {i \in 1..Len(dump) : dump[i] = <<MarkerClose>>} IN
    IF idx = {} THEN dump
    ELSE SubSeq(dump, 1, (CHOOSE i \in idx : \A j \in idx : i <= j) - 1)

\* the positions of the lines that carry a prefix and a value after it
Carrying(lines, prefix) ==
    {i \in 1..Len(lines) : HasPrefix(lines[i], prefix) /\ Len(lines[i]) > Len(prefix)}

\* the value of the last line that carries the prefix, unset when none does
LastValue(lines, prefix, unset) ==
    IF Carrying(lines, prefix) = {} THEN unset
    ELSE lines[MaxOf(Carrying(lines, prefix))][Len(prefix) + 1]

\* what the claim expects of the decoded policy for the lines of a dump
ExpectedPolicy(lines) ==
    LET spc == <<"set", "traffic-options", "sessions-per-client">> IN
    [name |-> "p1",
     antiSpamSMTPProfile |-> TrimQuotes(LastValue(lines, <<"set", "anti-spam", "smtp-profile">>, "")),
     webFilteringProfile |-> TrimQuotes(LastValue(lines, <<"set", "web-filtering", "http-profile">>, "")),
     antiVirus |->
         IF Carrying(lines, <<"set", "anti-virus">>) = {} THEN <<>>
         ELSE <<[nil |-> FALSE, ftp_download_profile |-> "", ftp_upload_profile |-> "",
                 http_profile |->
                     TrimQuotes(LastValue(lines, <<"set", "anti-virus", "http-profile">>, "")),
                 imap_profile |-> "", pop3_profile |-> "", smtp_profile |-> ""]>>,
     contentFiltering |-> <<>>,
     trafficSessionsPerClient |->
         IF Carrying(lines, spc) = {} THEN <<>>
         ELSE <<[nil |-> FALSE,
                 limit |-> Atoi(LastValue(lines, spc \o <<"limit">>, MinusOne)).val,
                 over_limit |-> LastValue(lines, spc \o <<"over-limit">>, "")]>>]

\* what the claim expects of the decoded interface for the lines of a dump
ExpectedInterface(lines) ==
    [trunk |-> FALSE, vlanTagging |-> FALSE, aeLinkSpeed |-> "", v8023ad |-> "",
     vlanMembers |-> <<>>,
     aeMinLink |->
         Atoi(LastValue(lines, <<"set", "aggregated-ether-options", "minimum-links">>, "0")).val,
     vlanNative |-> Atoi(LastValue(lines, <<"set", "native-vlan-id">>, "0")).val,
     aeLacp |-> LastValue(lines, <<"set", "aggregated-ether-options", "lacp">>, ""),
     description |-> TrimQuotes(LastValue(lines, <<"set", "description">>, "")),
     esi |->
         IF Carrying(lines, <<"set", "esi">>) = {} THEN <<>>
         ELSE <<[nil |-> FALSE, auto_derive_lacp |-> FALSE, df_election_type |-> "",
                 identifier |-> "", source_bmac |-> "",
                 mode |-> LET modes == {i \in Carrying(lines, <<"set", "esi">>) :
                                           lines[i][3] \in EsiModes}
                          IN IF modes = {} THEN "" ELSE lines[MaxOf(modes)][3]]>>]

\* C26: a decode that does not fail ignores the statements no pattern
\* matches; a nested sub-record is absent until a statement carries its
\* prefix, then holds the unset defaults except for the fields recognized
\* statements name, the last statement of a field deciding its value.
C26_DecodeIgnoresUnknown ==
    (outcome.done /\ ~outcome.failed) =>
        outcome.val = IF sample.dump = << <<emptyWord>> >> THEN outcome.val
                      ELSE IF sample.kind = "policy" THEN ExpectedPolicy(BeforeClose(sample.dump))
                      ELSE ExpectedInterface(BeforeClose(sample.dump))

\* an unknown statement is ignored and the second value of a field wins
C26_Witness ==
    /\ outcome.done /\ ~outcome.failed /\ sample.kind = "policy"
    /\ sample.dump = << <<"set", "url-filtering", "many">>,
                        <<"set", "anti-virus", "http-profile", Quote("av1")>>,
                        <<"set", "anti-virus", "http-profile", Quote("av2")>> >>
    /\ outcome.val.antiVirus[1].http_profile = "av2"
    /\ outcome.val.trafficSessionsPerClient = <<>>

\* a statement that carries the prefix of a sub-record and names no known
\* field materializes the sub-record with its defaults
SubRecordMaterializedUnset ==
    /\ outcome.done /\ ~outcome.failed /\ sample.kind = "interface"
    /\ sample.dump = << <<"set", "esi", "unknown", "x">> >>
    /\ outcome.val.esi = <<NewEsi>>

\* the sessions-per-client limit statements among the statements of a policy
LimitStatements(statements) ==
    SelectSeq(statements,
              LAMBDA st : HasPrefix(st, <<"set">> \o PolicyPath("p1")
                                        \o <<"traffic-options", "sessions-per-client", "limit">>))

\* C27: a sessions-per-client limit of 0 is encoded as one "limit 0"
\* statement and decoded back as 0; the sentinel -1 emits no limit
\* statement, and a decoded block without limit statement holds -1.
C27_LimitSentinel ==
    (/\ outcome.done /\ sample.kind = "policy"
     /\ sample.d.traffic_sessions_per_client # <<>>) =>
        LET t == sample.d.traffic_sessions_per_client[1]
            rd == outcome.val.trafficSessionsPerClient
        IN /\ ~outcome.err
           /\ t.limit = 0 =>
                 /\ Len(LimitStatements(outcome.statements)) = 1
                 /\ LimitStatements(outcome.statements)[1][Len(PolicyPath("p1")) + 5] = "0"
                 /\ Len(rd) = 1 /\ rd[1].limit = 0
           /\ t.limit = -1 =>
                 /\ LimitStatements(outcome.statements) = <<>>
                 /\ rd # <<>> => rd[1].limit = -1
                 /\ t.over_limit # "" => rd # <<>>

\* a limit of 0 has made the round trip
C27_Witness ==
    /\ outcome.done /\ sample.kind = "policy"
    /\ sample.d.traffic_sessions_per_client = <<[NewSessPerClient EXCEPT !.limit = 0]>>
    /\ Len(LimitStatements(outcome.statements)) = 1
    /\ outcome.val.trafficSessionsPerClient = <<[NewSessPerClient EXCEPT !.limit = 0]>>

\* a block without limit statement has been decoded with the sentinel
LimitSentinelDecoded ==
    /\ outcome.done /\ sample.kind = "policy"
    /\ sample.d.traffic_sessions_per_client # <<>>
    /\ sample.d.traffic_sessions_per_client[1].limit = -1
    /\ outcome.val.trafficSessionsPerClient # <<>>
    /\ outcome.val.trafficSessionsPerClient[1].limit = -1

\* C28: once an interface update has committed, decoding the interface's
\* configuration yields the desired options, the cleared ones included.
C28_UpdateConverges ==
    [][\A p \in DOMAIN proc :
          (/\ proc[p].op = "ifUpdate" /\ proc[p].pc = "u_commit"
           /\ proc'[p].commits = proc[p].commits + 1)
              => readInterfacePhysical(EntityDump(conf', proc[p]))
                     = [err |-> <<>>, opt |-> NormalInterface(proc[p].d)]]_vars

\* an update that cleared the description has committed and the
\* description is still configured
DescriptionSurvivesUpdate ==
    \E p \in DOMAIN proc :
        /\ proc[p].op = "ifUpdate" /\ proc[p].pc = "r_lock" /\ proc[p].commits = 1
        /\ proc[p].d.description = ""
        /\ readInterfacePhysical(EntityDump(conf, proc[p])).opt.description = "d1"

\* a delete that parks has returned success for an interface of the inventory
ParkingDeleteReturned(r, c) ==
    /\ r.pc = "returned" /\ r.op = "ifDelete" /\ r.res = "ok" /\ ~r.noDisable
    /\ InInventory(c, r.name)

\* a create of a parked interface is not refused as a conflict, and its
\* commit removes the parked markers and leaves the interface unparked
UnparkingCreate ==
    \A p \in DOMAIN proc :
        (proc[p].op = "ifCreate" /\ StateOf(conf, proc[p].name) = "NotConfigured") =>
            /\ proc[p].pc = "c_check" => ret'.res # "conflict"
            /\ (proc[p].pc = "c_commit" /\ proc'[p].commits = proc[p].commits + 1) =>
                  /\ proc[p].nc
                  /\ StateOf(conf', proc[p].name) # "NotConfigured"
                  /\ \A l \in conf' :
                        HasPrefix(l, IfPath(proc[p].name)) =>
                            /\ ~ContainsWord(l, "disable")
                            /\ ~ContainsWord(l, "apply-groups")
                            /\ ~ContainsWord(l, "NC")

\* C29 (as stated): after a successful delete that parks, on an interface
\* of the inventory, the classifier returns NotConfigured, with or without
\* deletion group; a following create is accepted, removes the markers and
\* leaves the interface unparked.
C29_ParkUnparkRoundTrip ==
    [][/\ ParkingDeleteReturned(ret', conf') => StateOf(conf', ret'.name) = "NotConfigured"
       /\ UnparkingCreate]_vars

\* C29 (amended): the same of a delete that returns success without the
\* warning of a failed inventory lookup.
C29_ParkUnparkWithoutWarning ==
    [][/\ (ParkingDeleteReturned(ret', conf') /\ ~ret'.warn)
              => StateOf(conf', ret'.name) = "NotConfigured"
       /\ UnparkingCreate]_vars

\* without deletion group, a create that found the interface parked has
\* returned success and the interface is unparked
C29_Witness ==
    /\ junosGroupIntDel = ""
    /\ ret.pc = "returned" /\ ret.op = "ifCreate" /\ ret.res = "ok" /\ ret.nc
    /\ ret.name \in HwInventory
    /\ StateOf(conf, ret.name) # "NotConfigured"

\* a delete has parked an interface under the deletion group
ParkedUnderGroup ==
    /\ junosGroupIntDel # ""
    /\ ParkingDeleteReturned(ret, conf) /\ ~ret.warn
    /\ StateOf(conf, ret.name) = "NotConfigured"

\* a delete has parked an interface without deletion group
ParkedWithoutGroup ==
    /\ junosGroupIntDel = ""
    /\ ParkingDeleteReturned(ret, conf) /\ ~ret.warn
    /\ StateOf(conf, ret.name) = "NotConfigured"

\* the configuration of the interface holds a unit statement that does not
\* mention ethernet-switching
HasBlockingUnit(c, name) ==
    \E l \in c : /\ HasPrefix(l, IfPath(name) \o <<"unit">>)
                 /\ ~ContainsWord(l, "ethernet-switching")

\* the configuration of the interface holds a unit statement
HasUnit(c, name) == \E l \in c : HasPrefix(l, IfPath(name) \o <<"unit">>)

\* C30: the delete of an interface whose configuration holds a unit
\* statement without ethernet-switching returns an error with nothing
\* staged and nothing committed; unit statements that mention
\* ethernet-switching do not make the delete fail.
C30_UnitBlocksDelete ==
    [][\A p \in DOMAIN proc :
          (proc[p].op = "ifDelete" /\ proc[p].pc = "d_del") =>
              /\ proc[p].staged = <<>> /\ proc[p].commits = 0
              /\ HasBlockingUnit(conf, proc[p].name) =>
                    /\ ret'.pc = "returned" /\ ret'.res \in {"inuse", "transport"}
                    /\ ret'.staged = <<>> /\ ret'.commits = 0
                    /\ conf' = conf
              /\ ~HasBlockingUnit(conf, proc[p].name) => ret'.res # "inuse"]_vars

\* a delete has been refused for the unit of the interface, whose
\* configuration also holds an ethernet-switching unit statement
C30_Witness ==
    /\ ret.pc = "returned" /\ ret.op = "ifDelete" /\ ret.res = "inuse"
    /\ ret.staged = <<>> /\ ret.commits = 0
    /\ HasBlockingUnit(conf, ret.name)
    /\ \E l \in conf : HasPrefix(l, IfPath(ret.name)) /\ ContainsWord(l, "ethernet-switching")

\* a delete has staged its statements on an interface whose only unit
\* statements mention ethernet-switching
SwitchingUnitDeleted ==
    \E p \in DOMAIN proc :
        /\ proc[p].op = "ifDelete" /\ proc[p].pc = "d_commit"
        /\ HasUnit(conf, proc[p].name) /\ ~HasBlockingUnit(conf, proc[p].name)

\* the entity a read is about is gone: the interface is parked, or has no
\* configuration and is not in the inventory; the policy is not configured
EntityGone(c, q) ==
    \/ q.op = "ifRead" /\ NotImportable(c, q.name)
    \/ q.op = "polRead" /\ Command(c, PolicyPath(q.name), TRUE) = << <<emptyWord>> >>

\* C31: a read or an import takes no configuration lock, stages no
\* statement, commits nothing and discards nothing: the configuration stays
\* as it is; a read whose queries succeed on an entity that is gone clears
\* the resource identifier and returns without error.
C31_ReadsAreReadOnly ==
    [][/\ conf' = conf
       /\ lockHolder = 0 /\ lockHolder' = 0
       /\ \A p \in DOMAIN proc : proc'[p].staged = <<>> /\ proc'[p].commits = 0
       /\ ret'.pc = "returned" =>
             /\ ret'.op \in {"ifRead", "polRead", "ifImport", "polImport"}
             /\ ~ret'.cleared /\ ret'.commits = 0 /\ ret'.staged = <<>>
       /\ \A p \in DOMAIN proc :
             (/\ proc[p].pc \in {"r_read", "pr_read"}
              /\ EntityGone(conf, proc[p])
              /\ ret'.res # "transport")
                 => /\ ret'.pc = "returned" /\ ret'.res = "ok" /\ ~ret'.warn
                    /\ ~tfId'[proc[p].name]]_vars

\* a read has found the interface parked and cleared its identifier
C31_Witness ==
    /\ ret.pc = "returned" /\ ret.op = "ifRead" /\ ret.res = "ok"
    /\ StateOf(conf, ret.name) = "NotConfigured"
    /\ ~tfId[ret.name]

\* a read has found no configuration on an interface the inventory does
\* not have and cleared its identifier
ReadOfAbsentInterface ==
    /\ ret.pc = "returned" /\ ret.op = "ifRead" /\ ret.res = "ok"
    /\ StateOf(conf, ret.name) = "Empty" /\ ~InInventory(conf, ret.name)
    /\ ~tfId[ret.name]

\* a read has found the policy gone and cleared its identifier
ReadOfAbsentPolicy ==
    /\ ret.pc = "returned" /\ ret.op = "polRead" /\ ret.res = "ok"
    /\ Command(conf, PolicyPath(ret.name), TRUE) = << <<emptyWord>> >>
    /\ ~tfId[ret.name]

\* an import has stored a resource
ImportStored ==
    /\ ret.pc = "returned" /\ ret.op \in {"ifImport", "polImport"} /\ ret.res = "ok"
    /\ tfId[ret.name]

====
